---- MODULE Spec2Model ----
(***************************************************************************)
(* A model of the HalalLens fetch-classify-persist pipeline.               *)
(*                                                                         *)
(* Part I   the persistence layer (database/database_manager.py and        *)
(*          FinancialDataProcessor.updated_pdf_status): two worker         *)
(*          threads share one BSEDatabaseManager, its connection pool and  *)
(*          its statistics, and run batches as PostgreSQL transactions     *)
(*          (READ COMMITTED, row locks held until commit or rollback).     *)
(* Part II  BSEAnnouncementsFetcher._chunk_data_range on calendar dates.   *)
(* Part III BSEAnnouncementsFetcher.get_announcements_paginated against a  *)
(*          nondeterministic upstream.                                     *)
(* Part IV  FinancialDataProcessor: the classifier and the headline        *)
(*          extractor, on texts as sequences of characters.                *)
(* Part V   BSEPDFStorage: the attachment store and its download loop.     *)
(* Part VI  usage_example.main: process_announcements with the store and   *)
(*          the database, then insert_financial_snapshots.                 *)
(* Part VII the request paths: _make_request of the BSE and of the NSE     *)
(*          fetcher, and the delays after a blocked response.              *)
(* Part VIII FilingsCrawler.run_daily_crawl and run_date_range_crawl.      *)
(* Part IX  NSEAnnouncementsFetcher: the session and the public fetch      *)
(*          operations.                                                    *)
(* Part X   the throttle of the attachment store.                          *)
(* Part XI  two workers in download_and_store_pdf for the same filing.     *)
(***************************************************************************)
EXTENDS Integers, Sequences, FiniteSets, Bags, TLC

\* Python's None where a string is expected; NoDt, NoDatetime, NoPeriod, NoDate,
\* NoneExtracted and NoneData below are None where a value of that shape is expected.
NONE == "<None>"

(***************************************************************************)
(* Bounds of the model.                                                    *)
(***************************************************************************)
MaxWork == 3         \* records handed to the operations in one behaviour

Workers == {"w1", "w2"}

(***************************************************************************)
(* Generic helpers.                                                        *)
(***************************************************************************)
SeqsUpTo(S, n) == UNION {[1..k -> S] : k \in 0..(IF n < 0 THEN 0 ELSE n)}

RECURSIVE SumCopies(_, _)
SumCopies(B, S) ==
    IF S = {} THEN 0
    ELSE LET x == CHOOSE y \in S : TRUE IN B[x] + SumCopies(B, S \ {x})

\* The bag obtained by replacing every row r of bag B by F[r].
MapRows(B, F) ==
    LET img == {F[r] : r \in DOMAIN B}
    IN  [q \in img |-> SumCopies(B, {r \in DOMAIN B : F[r] = q})]

Rows(B) == BagToSet(B)

(***************************************************************************)
(* Timestamps.  A NEWS_DT / DT_TM string "YYYY-MM-DDTHH:MM:SS[.f+]" is the *)
(* record of its parts: year, month, the remaining day-and-time text and   *)
(* the digits written after the dot.  A datetime is the parsed value with  *)
(* the fraction as microseconds.                                           *)
(***************************************************************************)
DtString(y, m, rest, frac) == [year |-> y, month |-> m, rest |-> rest, frac |-> frac]
NoDt == DtString(0, 0, "", <<>>)
NoDatetime == [year |-> 0, month |-> 0, rest |-> "", micro |-> 0]

RECURSIVE DigitsToInt(_)
DigitsToInt(ds) ==
    IF ds = <<>> THEN 0
    ELSE 10 * DigitsToInt(SubSeq(ds, 1, Len(ds) - 1)) + ds[Len(ds)]

\* (frac_digits + '000000')[:6]
PadMicros(frac) == DigitsToInt(SubSeq(frac \o <<0, 0, 0, 0, 0, 0>>, 1, 6))

parse_iso_datetime(s) ==
    [year |-> s.year, month |-> s.month, rest |-> s.rest,
     micro |-> IF s.frac = <<>> THEN 0 ELSE PadMicros(s.frac)]

\* str.strip() on the symbol and category strings of the model.
Strip(s) ==
    CASE s = " 500001 " -> "500001"
      [] s = "Result " -> "Result"
      [] OTHER -> s

(***************************************************************************)
(* Raw announcements as the exchange delivers them.                        *)
(***************************************************************************)
Raw(sc, nm, nd, dt, cat, sub) ==
    [SCRIP_CD |-> sc, SLONGNAME |-> nm, NEWS_DT |-> nd, DT_TM |-> dt,
     CATEGORYNAME |-> cat, NEWSSUB |-> sub]

T1   == DtString(2025, 7, "-18T12:01:02", <<>>)
T1h  == DtString(2025, 7, "-18T12:01:02", <<5>>)
T1hh == DtString(2025, 7, "-18T12:01:02", <<5, 0>>)

RawAnnouncements ==
    { Raw("500001",   "Acme Ltd",  T1,   NoDt, "Result",        "Financial Results"),
      Raw(" 500001 ", "Acme Ltd ", T1,   NoDt, "Board Meeting", "Board to approve Q4 results"),
      Raw("500001",   "Acme Ltd",  NoDt, T1hh, "Company Update", "Press release"),
      Raw(NONE,       "Nameless",  T1,   NoDt, "Result",        "Financial Results"),
      Raw("500002",   "Bolt Ltd",  NoDt, NoDt, "Result",        "Financial Results") }

\* dict.get(k) or default: None and '' are both falsy.
Falsy(v) == v = NONE \/ v = ""
OrElse(v, d) == IF Falsy(v) THEN d ELSE v

\* The value _prepare_announcement_data returns for a record it skips (None).
NoneData ==
    [symbol |-> NONE, company_name |-> NONE, filing_date |-> NoDatetime,
     category |-> NONE, headline |-> NONE, confidence |-> NONE,
     raw_json |-> Raw(NONE, NONE, NoDt, NoDt, NONE, NONE),
     minio_path |-> NONE, pdf_stored |-> FALSE]

_prepare_announcement_data(announcement) ==
    LET symbol      == Strip(OrElse(announcement.SCRIP_CD, ""))
        filing_date == IF announcement.NEWS_DT # NoDt THEN announcement.NEWS_DT
                       ELSE announcement.DT_TM
    IN  IF Falsy(symbol) \/ filing_date = NoDt THEN NoneData
        ELSE [symbol       |-> symbol,
              company_name |-> Strip(OrElse(announcement.SLONGNAME, "")),
              filing_date  |-> parse_iso_datetime(filing_date),
              category     |-> Strip(OrElse(announcement.CATEGORYNAME, "")),
              headline     |-> announcement.NEWSSUB,
              confidence   |-> CASE announcement.CATEGORYNAME = "Result" -> "HIGH"
                                 [] announcement.CATEGORYNAME = "Board Meeting" -> "MEDIUM"
                                 [] OTHER -> "LOW",
              raw_json     |-> announcement,
              minio_path   |-> NONE,
              pdf_stored   |-> FALSE]

(***************************************************************************)
(* Snapshot inputs: the processed_data dictionaries that                   *)
(* process_announcements returns (symbol, parsed date, extracted_data).    *)
(* A period string is "DD.MM.YYYY" or a bare year.                         *)
(***************************************************************************)
DottedPeriod(d, m, y) == [fmt |-> "d.m.Y", day |-> d, month |-> m, year |-> y]
YearPeriod(y) == [fmt |-> "Y", day |-> 0, month |-> 0, year |-> y]
NoPeriod == [fmt |-> NONE, day |-> 0, month |-> 0, year |-> 0]
NoDate == [year |-> 0, month |-> 0, day |-> 0]

DaysInMonth(y, m) ==
    CASE m \in {4, 6, 9, 11} -> 30
      [] m = 2 -> IF (y % 4 = 0 /\ y % 100 # 0) \/ y % 400 = 0 THEN 29 ELSE 28
      [] OTHER -> 31

_parse_fy_end(period_str) ==
    IF period_str = NoPeriod THEN NoDate
    ELSE IF period_str.fmt = "d.m.Y"
         THEN IF /\ period_str.month \in 1..12
                 /\ period_str.day \in 1..DaysInMonth(period_str.year, period_str.month)
              THEN [year |-> period_str.year, month |-> period_str.month,
                    day |-> period_str.day]
              ELSE NoDate
         ELSE NoDate

Extracted(p, q, a) == [isNone |-> FALSE, period |-> p, quarter |-> q, audit_status |-> a]
NoneExtracted == [isNone |-> TRUE, period |-> NoPeriod, quarter |-> NONE, audit_status |-> NONE]

Processed(sym, dt, ex) == [symbol |-> sym, date |-> dt, extracted_data |-> ex]

SnapshotInputs ==
    { Processed("500001", parse_iso_datetime(T1),
                Extracted(DottedPeriod(30, 6, 2025), NONE, "unaudited")),
      Processed("500001", parse_iso_datetime(T1h), Extracted(YearPeriod(2025), "Q4", NONE)),
      Processed(" 500001 ", parse_iso_datetime(T1), NoneExtracted) }

_prepare_snapshot_data(snapshot) ==
    \* extracted_data = snapshot.get('extracted_data', {}) or {}: the fields of
    \* NoneExtracted are the None values {}.get(...) gives.
    LET extracted_data == snapshot.extracted_data
    IN  [symbol       |-> snapshot.symbol,
         filing_date  |-> snapshot.date,
         fy_end       |-> _parse_fy_end(extracted_data.period),
         quarter      |-> extracted_data.quarter,
         audit_status |-> extracted_data.audit_status]

(***************************************************************************)
(* Arguments of updated_pdf_status.                                        *)
(***************************************************************************)
PdfArgs(sym, dt, path, stored) ==
    [symbol |-> sym, filing_date |-> dt, minio_path |-> path, pdf_stored |-> stored]

PdfStatusInputs ==
    { PdfArgs("500001", parse_iso_datetime(T1),
              "financial-results/2025/07/500001_x.pdf", TRUE),
      PdfArgs("500001", parse_iso_datetime(T1h), NONE, FALSE),
      PdfArgs("500002", parse_iso_datetime(T1), "raw-downloads/2025/07/500002_x.pdf", TRUE) }

(***************************************************************************)
(* The SQL statements, on tables that are bags of rows (a table without    *)
(* its unique index is a multiset; the statements keep it a set).          *)
(***************************************************************************)
SameKey(r, d) == r.symbol = d.symbol /\ r.filing_date = d.filing_date

\* Variants a slip in the statement would give: an INSERT into a table without the
\* unique key, and ON CONFLICT ... DO NOTHING.
PlainInsertAnnouncement(table, d) == table (+) SetToBag({d})

InsertAnnouncementOnce(table, d) ==
    IF \E r \in Rows(table) : SameKey(r, d) THEN table ELSE table (+) SetToBag({d})

\* INSERT INTO announcements ... ON CONFLICT (symbol, filing_date) DO UPDATE SET ...
UpsertAnnouncement(table, d) ==
    LET conflict == {r \in Rows(table) : SameKey(r, d)}
    IN  IF conflict = {} THEN table (+) SetToBag({d})
        ELSE MapRows(table,
               [r \in DOMAIN table |->
                  IF r \in conflict
                  THEN [r EXCEPT !.company_name = d.company_name,
                                 !.category = d.category,
                                 !.headline = d.headline,
                                 !.confidence = d.confidence,
                                 !.raw_json = d.raw_json,
                                 !.minio_path = d.minio_path,
                                 !.pdf_stored = d.pdf_stored]
                  ELSE r])

\* INSERT INTO financial_snapshots ... ON CONFLICT (symbol, filing_date) DO UPDATE SET ...
UpsertSnapshot(table, d) ==
    LET conflict == {r \in Rows(table) : SameKey(r, d)}
    IN  IF conflict = {} THEN table (+) SetToBag({d})
        ELSE MapRows(table,
               [r \in DOMAIN table |->
                  IF r \in conflict
                  THEN [r EXCEPT !.fy_end = d.fy_end,
                                 !.quarter = d.quarter,
                                 !.audit_status = d.audit_status]
                  ELSE r])

\* Variant: the WHERE clause without the filing_date.
UpdatePdfStatusBySymbol(table, a) ==
    MapRows(table,
      [r \in DOMAIN table |->
         IF r.symbol = a.symbol
         THEN [r EXCEPT !.minio_path = a.minio_path, !.pdf_stored = a.pdf_stored]
         ELSE r])

\* UPDATE announcements SET minio_path = %s, pdf_stored = %s
\*   WHERE symbol = %s AND filing_date = %s
UpdatePdfStatus(table, a) ==
    MapRows(table,
      [r \in DOMAIN table |->
         IF SameKey(r, a)
         THEN [r EXCEPT !.minio_path = a.minio_path, !.pdf_stored = a.pdf_stored]
         ELSE r])

\* Variant: the existence check left out.
AnnouncementAssumed(table, d) == TRUE

\* SELECT 1 FROM announcements WHERE symbol = ... AND filing_date = ...
AnnouncementExists(table, d) == \E r \in Rows(table) : SameKey(r, d)

\* cursor.rowcount after INSERT ... ON CONFLICT DO UPDATE: PostgreSQL reports
\* one affected row for the inserted and for the updated case alike.
rowcount(table, d) == IF \E r \in Rows(table) : SameKey(r, d) THEN 1 ELSE 1

(***************************************************************************)
(* Part I.  State of the persistence layer.                                *)
(***************************************************************************)
VARIABLES
    announcements,        \* committed rows of table announcements (a bag)
    financial_snapshots,  \* committed rows of table financial_snapshots (a bag)
    stats,                \* BSEDatabaseManager.stats
    max_connections,      \* the pool's maxconn
    checkedOut,           \* connections the pool has handed out
    pc,                   \* per worker: "idle", "body" (inside the with block), "exit"
    op,                   \* per worker: the operation it runs
    data,                 \* per worker: the argument list of the operation
    idx,                  \* per worker: position of the for loop in data
    conn,                 \* per worker: whether get_connection holds a connection
    tx,                   \* per worker: statements of its open transaction
    result,               \* per worker: "none", "running", "returned", "raised"
    processed_count,      \* per worker: the local of that name
    faulted,              \* per worker: the database itself failed a statement
    work,                 \* records handed to the operations so far
    lastUpsert,           \* history: key -> data of the latest committed upsert
    patchedSince,         \* history: keys patched by updated_pdf_status since
    prevRun               \* history: the latest committed insert_announcements

dbVars == <<announcements, financial_snapshots, stats, max_connections, checkedOut,
            pc, op, data, idx, conn, tx, result, processed_count, faulted, work,
            lastUpsert, patchedSince, prevRun>>

KeyOf(d) == <<d.symbol, d.filing_date>>

\* One statement of an open transaction, kept until commit or rollback.
Stmt(tbl, kind, d) == [table |-> tbl, kind |-> kind, key |-> KeyOf(d), arg |-> <<d>>]

ApplyStmt(tbl, table, st) ==
    IF st.table # tbl THEN table
    ELSE CASE st.kind = "upsert_announcement" -> UpsertAnnouncement(table, st.arg[1])
           [] st.kind = "upsert_snapshot"     -> UpsertSnapshot(table, st.arg[1])
           [] st.kind = "update_pdf_status"   -> UpdatePdfStatus(table, st.arg[1])

RECURSIVE ApplyTx(_, _, _)
ApplyTx(tbl, table, log) ==
    IF log = <<>> THEN table
    ELSE ApplyTx(tbl, ApplyStmt(tbl, table, Head(log)), Tail(log))

\* What worker w's transaction reads: committed rows and its own writes.
TxView(w, tbl) ==
    ApplyTx(tbl, IF tbl = "announcements" THEN announcements ELSE financial_snapshots,
            tx[w])

\* The row with this key is locked by another open transaction.
LockedByOther(w, tbl, d) ==
    \E v \in Workers \ {w} : \E i \in 1..Len(tx[v]) :
        tx[v][i].table = tbl /\ tx[v][i].key = KeyOf(d)

InitialStats ==
    [announcements_inserted |-> 0, announcements_updated |-> 0,
     snapshots_inserted |-> 0, snapshots_updated |-> 0, errors |-> 0]

NoRun == [data |-> <<>>, table |-> EmptyBag, repeat |-> FALSE]

InitDB ==
    /\ announcements = EmptyBag
    /\ financial_snapshots = EmptyBag
    /\ stats = InitialStats
    \* a pool larger than the number of workers behaves as one of that size
    /\ max_connections \in 1..Cardinality(Workers)
    /\ checkedOut = 0
    /\ pc = [w \in Workers |-> "idle"]
    /\ op = [w \in Workers |-> "none"]
    /\ data = [w \in Workers |-> <<>>]
    /\ idx = [w \in Workers |-> 1]
    /\ conn = [w \in Workers |-> FALSE]
    /\ tx = [w \in Workers |-> <<>>]
    /\ result = [w \in Workers |-> "none"]
    /\ processed_count = [w \in Workers |-> 0]
    /\ faulted = [w \in Workers |-> FALSE]
    /\ work = 0
    /\ lastUpsert = <<>>
    /\ patchedSince = {}
    /\ prevRun = NoRun

BatchOps == {"insert_announcements", "insert_financial_snapshots"}

\* The tables a transaction leaves behind: conn.commit() applies its statements,
\* conn.rollback() discards them.
CommitTable(w, tbl) == TxView(w, tbl)
\* Variant: the except block commits what the batch wrote so far.
CommitInsteadOfRollback(w, tbl) == TxView(w, tbl)
RollbackTable(w, tbl) ==
    IF tbl = "announcements" THEN announcements ELSE financial_snapshots

\* ThreadedConnectionPool.getconn / putconn: the pool's count of connections out.
getconn(w) == checkedOut + 1
\* Variant: the connection is returned on the normal path only.
putconnUnlessRaised(w) == IF result[w] = "raised" THEN checkedOut ELSE checkedOut - 1
putconn(w) == checkedOut - 1

\* History kept for the properties: the data each key received from the latest
\* committed upsert, in statement order.
RECURSIVE RecordUpserts(_, _)
RecordUpserts(h, log) ==
    IF log = <<>> THEN h
    ELSE RecordUpserts(
           IF Head(log).kind = "upsert_announcement"
           THEN (Head(log).key :> Head(log).arg[1]) @@ h ELSE h,
           Tail(log))

KeysOfKind(log, kind) == {log[i].key : i \in {j \in 1..Len(log) : log[j].kind = kind}}

\* What a call takes from the budget of the model: one per record, one for a
\* call without records.
Cost(d) == IF Len(d) = 0 THEN 1 ELSE Len(d)

\* The call of operation o with argument list d, up to and including
\* "with self.get_connection() as conn": an empty list returns 0 at once;
\* getconn() hands out a connection, or raises PoolError when max_connections
\* are out (conn stays None, nothing is rolled back or returned).
\* Idle workers are interchangeable: w2 is used only while w1 is busy.
Call(w, o, d, returnsAtOnce) ==
    /\ pc[w] = "idle"
    /\ \A v \in Workers : (v = "w1" /\ w # v) => pc[v] # "idle"
    /\ work + Cost(d) <= MaxWork
    /\ work' = work + Cost(d)
    /\ op' = [op EXCEPT ![w] = o]
    /\ data' = [data EXCEPT ![w] = d]
    /\ idx' = [idx EXCEPT ![w] = 1]
    /\ processed_count' = [processed_count EXCEPT ![w] = 0]
    /\ faulted' = [faulted EXCEPT ![w] = FALSE]
    /\ IF returnsAtOnce
       THEN /\ pc' = [pc EXCEPT ![w] = "exit"]
            /\ result' = [result EXCEPT ![w] = "returned"]
            /\ UNCHANGED <<checkedOut, conn>>
       ELSE IF checkedOut < max_connections
       THEN /\ checkedOut' = getconn(w)
            /\ conn' = [conn EXCEPT ![w] = TRUE]
            /\ pc' = [pc EXCEPT ![w] = "body"]
            /\ result' = [result EXCEPT ![w] = "running"]
       ELSE /\ pc' = [pc EXCEPT ![w] = "exit"]
            /\ result' = [result EXCEPT ![w] = "raised"]
            /\ UNCHANGED <<checkedOut, conn>>
    /\ UNCHANGED <<announcements, financial_snapshots, stats, max_connections, tx,
                   lastUpsert, patchedSince, prevRun>>

insert_announcements(w) ==
    \E d \in SeqsUpTo(RawAnnouncements, MaxWork - work) :
        Call(w, "insert_announcements", d, d = <<>>)

insert_financial_snapshots(w) ==
    \E d \in SeqsUpTo(SnapshotInputs, MaxWork - work) :
        Call(w, "insert_financial_snapshots", d, d = <<>>)

updated_pdf_status(w) ==
    \E a \in PdfStatusInputs :
        Call(w, "updated_pdf_status", <<a>>, FALSE)

\* The except block of the operation: rollback, count the error (the two batch
\* operations), re-raise.
ExceptInBody(w) ==
    /\ announcements' = RollbackTable(w, "announcements")
    /\ financial_snapshots' = RollbackTable(w, "financial_snapshots")
    /\ tx' = [tx EXCEPT ![w] = <<>>]
    /\ stats' = IF op[w] \in BatchOps
                THEN [stats EXCEPT !.errors = @ + 1] ELSE stats
    /\ result' = [result EXCEPT ![w] = "raised"]
    /\ pc' = [pc EXCEPT ![w] = "exit"]
    /\ UNCHANGED <<max_connections, checkedOut, op, data, idx, conn, processed_count,
                   work, lastUpsert, patchedSince, prevRun>>

\* One iteration of the for loop of insert_announcements.
insert_announcements_row(w) ==
    /\ pc[w] = "body" /\ op[w] = "insert_announcements" /\ idx[w] <= Len(data[w])
    /\ LET insert_data == _prepare_announcement_data(data[w][idx[w]])
       IN  IF insert_data = NoneData
           THEN \* cursor.execute(insert_query, None): the placeholders are not
                \* bound and the server rejects the statement
                ExceptInBody(w) /\ UNCHANGED faulted
           ELSE /\ ~LockedByOther(w, "announcements", insert_data)
                /\ tx' = [tx EXCEPT ![w] =
                            Append(@, Stmt("announcements", "upsert_announcement",
                                           insert_data))]
                /\ stats' = IF rowcount(TxView(w, "announcements"), insert_data) = 1
                            THEN [stats EXCEPT !.announcements_inserted = @ + 1]
                            ELSE [stats EXCEPT !.announcements_updated = @ + 1]
                /\ processed_count' = [processed_count EXCEPT ![w] = @ + 1]
                /\ idx' = [idx EXCEPT ![w] = @ + 1]
                /\ UNCHANGED <<announcements, financial_snapshots, max_connections,
                               checkedOut, pc, op, data, conn, result, faulted, work,
                               lastUpsert, patchedSince, prevRun>>

\* One iteration of the for loop of insert_financial_snapshots.
insert_financial_snapshots_row(w) ==
    /\ pc[w] = "body" /\ op[w] = "insert_financial_snapshots" /\ idx[w] <= Len(data[w])
    /\ LET insert_data == _prepare_snapshot_data(data[w][idx[w]])
       IN  IF ~AnnouncementExists(TxView(w, "announcements"), insert_data)
           THEN \* logged and skipped (continue)
                /\ idx' = [idx EXCEPT ![w] = @ + 1]
                /\ UNCHANGED <<tx, stats, processed_count>>
           ELSE /\ ~LockedByOther(w, "financial_snapshots", insert_data)
                /\ tx' = [tx EXCEPT ![w] =
                            Append(@, Stmt("financial_snapshots", "upsert_snapshot",
                                           insert_data))]
                /\ stats' = IF rowcount(TxView(w, "financial_snapshots"), insert_data) = 1
                            THEN [stats EXCEPT !.snapshots_inserted = @ + 1]
                            ELSE [stats EXCEPT !.snapshots_updated = @ + 1]
                /\ processed_count' = [processed_count EXCEPT ![w] = @ + 1]
                /\ idx' = [idx EXCEPT ![w] = @ + 1]
    /\ UNCHANGED <<announcements, financial_snapshots, max_connections, checkedOut, pc,
                   op, data, conn, result, faulted, work, lastUpsert, patchedSince,
                   prevRun>>

\* cursor.execute(update_query, ...) of updated_pdf_status.
updated_pdf_status_execute(w) ==
    /\ pc[w] = "body" /\ op[w] = "updated_pdf_status" /\ idx[w] <= Len(data[w])
    /\ LET a == data[w][idx[w]]
       IN  IF AnnouncementExists(TxView(w, "announcements"), a)
           THEN /\ ~LockedByOther(w, "announcements", a)
                /\ tx' = [tx EXCEPT ![w] =
                            Append(@, Stmt("announcements", "update_pdf_status", a))]
           ELSE tx' = tx
    /\ idx' = [idx EXCEPT ![w] = @ + 1]
    /\ UNCHANGED <<announcements, financial_snapshots, stats, max_connections,
                   checkedOut, pc, op, data, conn, result, processed_count, faulted,
                   work, lastUpsert, patchedSince, prevRun>>

\* conn.commit() at the end of the try block.
CommitBody(w) ==
    /\ pc[w] = "body" /\ idx[w] > Len(data[w])
    /\ announcements' = CommitTable(w, "announcements")
    /\ financial_snapshots' = CommitTable(w, "financial_snapshots")
    /\ tx' = [tx EXCEPT ![w] = <<>>]
    /\ result' = [result EXCEPT ![w] = "returned"]
    /\ pc' = [pc EXCEPT ![w] = "exit"]
    /\ UNCHANGED <<stats, max_connections, checkedOut, op, data, idx, conn,
                   processed_count, faulted, work>>

commit(w) == CommitBody(w) /\ UNCHANGED <<lastUpsert, patchedSince, prevRun>>

\* The same commit, with the history variables kept.
commit_recorded(w) ==
    /\ CommitBody(w)
    /\ lastUpsert' = RecordUpserts(lastUpsert, tx[w])
    /\ patchedSince' = (patchedSince \ KeysOfKind(tx[w], "upsert_announcement"))
                          \cup KeysOfKind(tx[w], "update_pdf_status")
    /\ prevRun' = IF op[w] = "insert_announcements"
                  THEN [data |-> data[w], table |-> announcements',
                        repeat |-> prevRun.data = data[w] /\ prevRun.table = announcements]
                  ELSE prevRun

\* The database fails the statement at hand (execute or commit): a lost
\* connection, a deadlock the server breaks, a value it rejects.
database_error(w) ==
    /\ pc[w] = "body"
    /\ faulted' = [faulted EXCEPT ![w] = TRUE]
    /\ ExceptInBody(w)

\* get_connection's "finally: putconn(conn)" (after its own rollback when an
\* exception passes through), and the return or raise to the caller, where
\* the locals of the call end.
leave(w) ==
    /\ pc[w] = "exit"
    /\ checkedOut' = IF conn[w] THEN putconn(w) ELSE checkedOut
    /\ conn' = [conn EXCEPT ![w] = FALSE]
    /\ tx' = [tx EXCEPT ![w] = <<>>]
    /\ pc' = [pc EXCEPT ![w] = "idle"]
    /\ op' = [op EXCEPT ![w] = "none"]
    /\ data' = [data EXCEPT ![w] = <<>>]
    /\ idx' = [idx EXCEPT ![w] = 1]
    /\ result' = [result EXCEPT ![w] = "none"]
    /\ processed_count' = [processed_count EXCEPT ![w] = 0]
    /\ faulted' = [faulted EXCEPT ![w] = FALSE]
    /\ UNCHANGED <<announcements, financial_snapshots, stats, max_connections, work,
                   lastUpsert, patchedSince, prevRun>>

\* History for the properties of the statistics: self.stats as it was when the
\* batch at hand was called.
VARIABLES
    stats_before

histVars == <<stats_before>>

HistOff == stats_before = InitialStats

\* The call of a batch operation, with the statistics of that moment kept.
batch_called(w) ==
    /\ insert_announcements(w) \/ insert_financial_snapshots(w)
    /\ stats_before' = stats

(***************************************************************************)
(* Part II.  BSEAnnouncementsFetcher._chunk_data_range.  A date string       *)
(* 'YYYYMMDD' is the number its digits write; a datetime at midnight is its  *)
(* day number, counted from 1 January of EpochYear.                          *)
(***************************************************************************)
EpochYear == 2023
MaxDays == 3         \* largest max_days tried

IsLeap(y) == (y % 4 = 0 /\ y % 100 # 0) \/ y % 400 = 0
DaysInYear(y) == IF IsLeap(y) THEN 366 ELSE 365

RECURSIVE DaysBeforeYear(_)
DaysBeforeYear(y) == IF y <= EpochYear THEN 0 ELSE DaysBeforeYear(y - 1) + DaysInYear(y - 1)

RECURSIVE DaysBeforeMonth(_, _)
DaysBeforeMonth(y, m) == IF m <= 1 THEN 0 ELSE DaysBeforeMonth(y, m - 1) + DaysInMonth(y, m - 1)

\* datetime.strptime(s, '%Y%m%d')
strptime(s) ==
    LET y == s \div 10000
        m == (s \div 100) % 100
        d == s % 100
    IN  DaysBeforeYear(y) + DaysBeforeMonth(y, m) + d

RECURSIVE YearOf(_, _)
YearOf(n, y) == IF n <= DaysInYear(y) THEN y ELSE YearOf(n - DaysInYear(y), y + 1)

RECURSIVE MonthOf(_, _, _)
MonthOf(n, y, m) ==
    IF n <= DaysInMonth(y, m) THEN m ELSE MonthOf(n - DaysInMonth(y, m), y, m + 1)

\* dt.strftime('%Y%m%d')
strftime(n) ==
    LET y  == YearOf(n, EpochYear)
        ny == n - DaysBeforeYear(y)
        m  == MonthOf(ny, y, 1)
        d  == ny - DaysBeforeMonth(y, m)
    IN  y * 10000 + m * 100 + d

Min(a, b) == IF a <= b THEN a ELSE b

\* Variant: the chunk end computed without the "- 1".
chunk_end_off_by_one(current_day, end_date, max_days) ==
    Min(current_day + max_days, end_date)

\* chunk_end = min(current_day + timedelta(days=max_days-1), end_date)
chunk_end_of(current_day, end_date, max_days) ==
    Min(current_day + (max_days - 1), end_date)

\* The whole of _chunk_data_range, from current_day on.
RECURSIVE chunk_from(_, _, _)
chunk_from(current_day, end_date, max_days) ==
    IF current_day <= end_date
    THEN LET chunk_end == chunk_end_of(current_day, end_date, max_days)
         IN  <<<<strftime(current_day), strftime(chunk_end)>>>>
               \o chunk_from(chunk_end + 1, end_date, max_days)
    ELSE <<>>

_chunk_data_range(start_date, end_date, max_days) ==
    chunk_from(strptime(start_date), strptime(end_date), max_days)

\* The date strings tried: around the turn of a year and a leap day.
DateStrings ==
    {20231230, 20231231, 20240101, 20240102,
     20240227, 20240228, 20240229, 20240301, 20240302}

VARIABLES
    start_date,       \* argument of _chunk_data_range ('YYYYMMDD')
    end_date,         \* argument of _chunk_data_range ('YYYYMMDD')
    max_days,         \* argument of _chunk_data_range
    current_day,      \* the local of that name (a day number)
    chunks,           \* the list being built
    chunk_pc          \* "off", "loop", "done"

chunkVars == <<start_date, end_date, max_days, current_day, chunks, chunk_pc>>

ChunkOff ==
    /\ start_date = 0 /\ end_date = 0 /\ max_days = 0
    /\ current_day = 0 /\ chunks = <<>> /\ chunk_pc = "off"

InitChunk ==
    /\ start_date \in DateStrings
    /\ end_date \in DateStrings
    /\ max_days \in 1..MaxDays
    /\ current_day = strptime(start_date)
    /\ chunks = <<>>
    /\ chunk_pc = "loop"

\* One iteration of "while current_day <= end_date".
chunk_iteration ==
    /\ chunk_pc = "loop"
    /\ current_day <= strptime(end_date)
    /\ LET chunk_end == chunk_end_of(current_day, strptime(end_date), max_days)
       IN  /\ chunks' = Append(chunks, <<strftime(current_day), strftime(chunk_end)>>)
           /\ current_day' = chunk_end + 1
    /\ UNCHANGED <<start_date, end_date, max_days, chunk_pc>>

\* The loop condition fails: return chunks.
chunk_return ==
    /\ chunk_pc = "loop"
    /\ ~(current_day <= strptime(end_date))
    /\ chunk_pc' = "done"
    /\ UNCHANGED <<start_date, end_date, max_days, current_day, chunks>>

(***************************************************************************)
(* Part III.  BSEAnnouncementsFetcher.get_announcements_paginated.  The    *)
(* upstream answers each page request as it likes; a "finite" upstream     *)
(* has at most MaxPages pages per day, an "endless" one may answer every   *)
(* request with a non-empty Table.                                         *)
(***************************************************************************)
MaxPages == 2        \* pages a finite upstream holds per chunk

\* _make_request(url, params, max_retries=3)
max_retries == 3

\* Non-empty result tables (lists of NEWSIDs) the upstream may send.
Tables == {<<"n1">>, <<"n2", "n1">>}

\* The date ranges fetched.
FetchDates == {20240228, 20240229, 20240301}

\* Records the model keeps of one chunk: what a finite upstream can send; the
\* list of an endless chunk is kept up to this length.
MaxKept == (MaxPages + 1) * 2

\* What _make_request returns: None once every attempt has failed, else the
\* JSON body, with or without a 'Table', the Table empty or not.
NoResponse == [kind |-> "None", table |-> <<>>]
Responses ==
    {NoResponse, [kind |-> "no Table", table |-> <<>>], [kind |-> "Table", table |-> <<>>]}
    \cup {[kind |-> "Table", table |-> t] : t \in Tables}

VARIABLES
    upstream,             \* "off", "finite" or "endless"
    date_chunks,          \* the local of that name
    chunk_no,             \* position of the for loop in date_chunks
    page_no,              \* _fetch_date_chunk: the local of that name
    chunk_announcements,  \* _fetch_date_chunk: its local list "announcements"
    all_announcements,    \* get_announcements_paginated: the list returned
    attempt,              \* _make_request: attempts of the request that failed
    response,             \* _fetch_date_chunk: its local "data"
    gaps,                 \* history: chunks with a request that failed for good
    received,             \* history: the non-empty pages received, in order
    fetch_pc              \* "off", "page" (about to request), "data", "done"

fetchVars == <<upstream, date_chunks, chunk_no, page_no, chunk_announcements,
               all_announcements, attempt, response, gaps, received, fetch_pc>>

FetchOff ==
    /\ upstream = "off" /\ date_chunks = <<>> /\ chunk_no = 0 /\ page_no = 0
    /\ chunk_announcements = <<>> /\ all_announcements = <<>> /\ received = <<>>
    /\ attempt = 0 /\ response = NoResponse /\ gaps = {}
    /\ fetch_pc = "off"

InitFetchWith(modes) ==
    /\ upstream \in modes
    /\ \E from_date \in FetchDates, to_date \in FetchDates :
          date_chunks = _chunk_data_range(from_date, to_date, 1)
    /\ chunk_no = 1
    /\ page_no = 1
    /\ chunk_announcements = <<>>
    /\ all_announcements = <<>>
    /\ attempt = 0
    /\ response = NoResponse
    /\ gaps = {}
    /\ received = <<>>
    /\ fetch_pc = IF date_chunks = <<>> THEN "done" ELSE "page"

\* Variant: the page put in front of the list.
prepend(list, page) == page \o list

\* list.extend(page)
extend(list, page) == list \o page

\* page_no += 1; the model does not count beyond MaxPages + 1.
next_page(p) == IF p <= MaxPages THEN p + 1 ELSE p

\* data and 'Table' in data and data['Table']
HasTable(d) == d.kind = "Table" /\ d.table # <<>>

\* The upstream has a non-empty page for this request.
MaySend == upstream = "endless" \/ page_no <= MaxPages

\* _fetch_date_chunk: data = self._make_request(url, params); one turn of the
\* for loop of _make_request.  The attempt gets status 200 and a JSON body, which
\* is returned, or it fails (another status, a RequestException); after
\* max_retries failed attempts _make_request returns None.
_make_request ==
    /\ fetch_pc = "page"
    /\ attempt < max_retries
    /\ \/ \E d \in Responses \ {NoResponse} :
             /\ HasTable(d) => MaySend
             /\ response' = d
             /\ attempt' = 0
             /\ fetch_pc' = "data"
             /\ gaps' = gaps
       \/ /\ attempt + 1 < max_retries
          /\ attempt' = attempt + 1
          /\ UNCHANGED <<response, fetch_pc, gaps>>
       \/ /\ attempt + 1 = max_retries
          /\ response' = NoResponse
          /\ attempt' = 0
          /\ fetch_pc' = "data"
          /\ gaps' = gaps \cup {chunk_no}
    /\ UNCHANGED <<upstream, date_chunks, chunk_no, page_no, chunk_announcements,
                   all_announcements, received>>

\* Variant: a chunk whose request failed gives up its pages.
chunk_data_unless_failed(d, announcements_of_chunk) ==
    IF d = NoResponse THEN <<>> ELSE announcements_of_chunk

\* _fetch_date_chunk: "break" and "return announcements", whatever data was.
chunk_data(d, announcements_of_chunk) == announcements_of_chunk

\* _fetch_date_chunk, the branch taken on a non-empty Table.
fetch_page ==
    /\ fetch_pc = "data"
    /\ HasTable(response)
    /\ LET kept == Len(chunk_announcements) + Len(response.table) <= MaxKept
       IN  /\ chunk_announcements' =
                 IF kept THEN extend(chunk_announcements, response.table)
                         ELSE chunk_announcements
           /\ received' =
                 IF kept
                 THEN Append(received, [chunk |-> chunk_no, page |-> page_no,
                                        params |-> date_chunks[chunk_no],
                                        table |-> response.table])
                 ELSE received
    /\ page_no' = next_page(page_no)
    /\ fetch_pc' = "page"
    /\ UNCHANGED <<upstream, date_chunks, chunk_no, all_announcements, attempt,
                   response, gaps>>

\* _fetch_date_chunk, the else branch: break and return; then
\* get_announcements_paginated extends its list and goes to the next chunk.
fetch_last_page ==
    /\ fetch_pc = "data"
    /\ ~HasTable(response)
    /\ all_announcements' =
          extend(all_announcements, chunk_data(response, chunk_announcements))
    /\ chunk_announcements' = <<>>
    /\ page_no' = 1
    /\ IF chunk_no < Len(date_chunks)
       THEN chunk_no' = chunk_no + 1 /\ fetch_pc' = "page"
       ELSE chunk_no' = chunk_no /\ fetch_pc' = "done"
    /\ UNCHANGED <<upstream, date_chunks, received, attempt, response, gaps>>

(***************************************************************************)
(* Part IV.  FinancialDataProcessor: classification and extraction.  A     *)
(* text is the sequence of its characters.                                 *)
(***************************************************************************)
UpperCase == <<"A", "B", "C", "D", "E", "F", "G", "H", "I", "J", "K", "L", "M", "N", "O", "P", "Q", "R", "S", "T", "U", "V", "W", "X", "Y", "Z">>
LowerCase == <<"a", "b", "c", "d", "e", "f", "g", "h", "i", "j", "k", "l", "m", "n", "o", "p", "q", "r", "s", "t", "u", "v", "w", "x", "y", "z">>

IsDigitChar(c) == c \in {"0", "1", "2", "3", "4", "5", "6", "7", "8", "9"}

lower_char(c) ==
    IF \E k \in DOMAIN UpperCase : UpperCase[k] = c
    THEN LowerCase[CHOOSE k \in DOMAIN UpperCase : UpperCase[k] = c]
    ELSE c

\* Variant: the headline compared as written.
keep_case(text) == text

\* str.lower()
lower(text) == [i \in 1..Len(text) |-> lower_char(text[i])]

\* text[i:].startswith(lit)
MatchAt(text, i, lit) ==
    /\ i >= 1
    /\ i + Len(lit) - 1 <= Len(text)
    /\ SubSeq(text, i, i + Len(lit) - 1) = lit

\* lit in text
Contains(text, lit) == \E i \in 1..(Len(text) + 1) : MatchAt(text, i, lit)

Least(S) == CHOOSE x \in S : \A y \in S : x <= y

\* None where a text is expected.
NoText == <<>>

\* The keywords and the literal parts of the patterns.
kw_result == <<"r", "e", "s", "u", "l", "t">>
kw_financial_results == <<"f", "i", "n", "a", "n", "c", "i", "a", "l", " ", "r", "e", "s", "u", "l", "t", "s">>
kw_quarterly_results == <<"q", "u", "a", "r", "t", "e", "r", "l", "y", " ", "r", "e", "s", "u", "l", "t", "s">>
kw_annual_results == <<"a", "n", "n", "u", "a", "l", " ", "r", "e", "s", "u", "l", "t", "s">>
kw_unaudited == <<"u", "n", "a", "u", "d", "i", "t", "e", "d">>
kw_audited == <<"a", "u", "d", "i", "t", "e", "d">>
kw_standalone == <<"s", "t", "a", "n", "d", "a", "l", "o", "n", "e">>
kw_consolidated == <<"c", "o", "n", "s", "o", "l", "i", "d", "a", "t", "e", "d">>
kw_approve == <<"a", "p", "p", "r", "o", "v", "e">>
kw_consideration == <<"c", "o", "n", "s", "i", "d", "e", "r", "a", "t", "i", "o", "n">>
kw_quarter_ended == <<"q", "u", "a", "r", "t", "e", "r", " ", "e", "n", "d", "e", "d">>
kw_year_ended == <<"y", "e", "a", "r", " ", "e", "n", "d", "e", "d">>
re_quarter_ended == <<"q", "u", "a", "r", "t", "e", "r", " ", "e", "n", "d", "e", "d", " ">>
re_year_ended == <<"y", "e", "a", "r", " ", "e", "n", "d", "e", "d", " ">>
re_period_ended == <<"p", "e", "r", "i", "o", "d", " ", "e", "n", "d", "e", "d", " ">>
re_fy == <<"f", "y">>
re_quarter == <<"q", "u", "a", "r", "t", "e", "r">>
re_first_quarter == <<"f", "i", "r", "s", "t", " ", "q", "u", "a", "r", "t", "e", "r">>
re_second_quarter == <<"s", "e", "c", "o", "n", "d", " ", "q", "u", "a", "r", "t", "e", "r">>
re_third_quarter == <<"t", "h", "i", "r", "d", " ", "q", "u", "a", "r", "t", "e", "r">>
re_fourth_quarter == <<"f", "o", "u", "r", "t", "h", " ", "q", "u", "a", "r", "t", "e", "r">>

\* Headlines (NEWSSUB) and bodies (MORE) of the announcements classified.
\* "Board to APPROVE Q4 results"
H_board_approve ==
    <<"B", "o", "a", "r", "d", " ", "t", "o", " ", "A", "P", "P", "R", "O", "V", "E", " ", "Q", "4", " ", "r", "e", "s", "u", "l", "t", "s">>
\* "unaudited standalone results for quarter ended 30.06.2025"
H_quarter_ended ==
    <<"u", "n", "a", "u", "d", "i", "t", "e", "d", " ", "s", "t", "a", "n", "d", "a", "l", "o", "n", "e", " ", "r", "e", "s", "u", "l", "t", "s", " ", "f", "o", "r", " ", "q", "u", "a", "r", "t", "e", "r", " ", "e", "n", "d", "e", "d", " ", "3", "0", ".", "0", "6", ".", "2", "0", "2", "5">>
\* "AGM Notice"
H_agm ==
    <<"A", "G", "M", " ", "N", "o", "t", "i", "c", "e">>
\* "Financial Results"
H_financial_results ==
    <<"F", "i", "n", "a", "n", "c", "i", "a", "l", " ", "R", "e", "s", "u", "l", "t", "s">>
\* "First quarter update"
H_first_quarter ==
    <<"F", "i", "r", "s", "t", " ", "q", "u", "a", "r", "t", "e", "r", " ", "u", "p", "d", "a", "t", "e">>
\* "Consideration of dividend"
H_consideration ==
    <<"C", "o", "n", "s", "i", "d", "e", "r", "a", "t", "i", "o", "n", " ", "o", "f", " ", "d", "i", "v", "i", "d", "e", "n", "d">>
\* ""
M_empty ==
    <<>>
\* "Audited consolidated FY2025"
M_fy ==
    <<"A", "u", "d", "i", "t", "e", "d", " ", "c", "o", "n", "s", "o", "l", "i", "d", "a", "t", "e", "d", " ", "F", "Y", "2", "0", "2", "5">>

Headlines == {H_board_approve, H_quarter_ended, H_agm, H_financial_results, H_first_quarter, H_consideration}
Bodies == {M_empty, M_fy}
Categories == {"Result", "Results", "Result ", "Board Meeting", "Company Update"}

\* self.financial_keywords
financial_keywords ==
    [high_confidence   |-> {kw_result, kw_financial_results, kw_quarterly_results,
                            kw_annual_results},
     medium_confidence |-> {kw_unaudited, kw_audited, kw_standalone, kw_consolidated},
     board_keywords    |-> {kw_approve, kw_consideration, kw_quarter_ended,
                            kw_year_ended}]

\* The processor object the methods receive as self.
Processor(proc_stats) == [financial_keywords |-> financial_keywords, stats |-> proc_stats]

_is_financial_announcement(self, category, subject) ==
    IF category \in {"Result", "Results"} THEN TRUE
    ELSE IF category = "Board Meeting"
         THEN \E keyword \in self.financial_keywords.board_keywords :
                 Contains(subject, keyword)
         ELSE \E keyword \in self.financial_keywords.high_confidence :
                 Contains(subject, keyword)

\* Variant: the tier of a filing depends on how many were processed before it.
_determine_confidence_counting(self, category, subject) ==
    IF category = "Result" /\ self.stats.processed <= 1 THEN "HIGH" ELSE "LOW"

_determine_confidence(self, category, subject) ==
    IF category = "Result" THEN "HIGH"
    ELSE IF /\ category = "Board Meeting"
            /\ \E kw \in self.financial_keywords.board_keywords : Contains(subject, kw)
         THEN "MEDIUM"
         ELSE "LOW"

\* \d{n} at position i
DigitsAt(t, i, n) ==
    /\ i >= 1
    /\ i + n - 1 <= Len(t)
    /\ \A k \in i..(i + n - 1) : IsDigitChar(t[k])

\* \d{2}\.\d{2}\.\d{4} at position i
DateAt(t, i) ==
    /\ DigitsAt(t, i, 2)
    /\ i + 9 <= Len(t)
    /\ t[i + 2] = "."
    /\ DigitsAt(t, i + 3, 2)
    /\ t[i + 5] = "."
    /\ DigitsAt(t, i + 6, 4)

\* \d{4} and [1-4] at position j
FourDigits(t, j) == DigitsAt(t, j, 4)
OneToFour(t, j) == j >= 1 /\ j <= Len(t) /\ t[j] \in {"1", "2", "3", "4"}

\* re.search(lit + r'(\d{2}\.\d{2}\.\d{4})', t): group(1) of the leftmost match.
SearchDateAfter(t, lit) ==
    LET S == {i \in 1..Len(t) : MatchAt(t, i, lit) /\ DateAt(t, i + Len(lit))}
    IN  IF S = {} THEN NoText
        ELSE SubSeq(t, Least(S) + Len(lit), Least(S) + Len(lit) + 9)

\* re.search(prefix + r'.*?(group)', t) for a prefix of plen characters that
\* matches at the positions Starts and a group of glen characters that matches
\* where G holds: the leftmost start, then the shortest gap; "." is any
\* character but a newline.
LazySearch(t, Starts, plen, G(_, _), glen) ==
    LET Ends(i) == {j \in (i + plen)..Len(t) :
                      G(t, j) /\ \A k \in (i + plen)..(j - 1) : t[k] # "\n"}
        S == {i \in Starts : Ends(i) # {}}
    IN  IF S = {} THEN NoText
        ELSE SubSeq(t, Least(Ends(Least(S))), Least(Ends(Least(S))) + glen - 1)

\* Where q[1-4] and where a literal match.
QnStarts(t) == {i \in 1..Len(t) : t[i] = "q" /\ OneToFour(t, i + 1)}
LitStarts(t, lit) == {i \in 1..Len(t) : MatchAt(t, i, lit)}

\* The first of the values that is not None.
RECURSIVE FirstMatch(_)
FirstMatch(values) ==
    IF values = <<>> THEN NoText
    ELSE IF Head(values) # NoText THEN Head(values) ELSE FirstMatch(Tail(values))

\* re.IGNORECASE: the patterns are lower case and are matched on lower(text).
_extract_period(text) ==
    LET t == lower(text)
    IN  FirstMatch(<<SearchDateAfter(t, re_quarter_ended),
                     SearchDateAfter(t, re_year_ended),
                     SearchDateAfter(t, re_period_ended),
                     LazySearch(t, QnStarts(t), 2, FourDigits, 4),
                     LazySearch(t, LitStarts(t, re_fy), Len(re_fy), FourDigits, 4)>>)

_extract_result_type(text) ==
    IF Contains(text, kw_consolidated) THEN "consolidated"
    ELSE IF Contains(text, kw_standalone) THEN "standalone"
    ELSE NONE

_extract_financial_year(text) ==
    LET t == lower(text)
    IN  LazySearch(t, LitStarts(t, re_fy), Len(re_fy), FourDigits, 4)

\* f"Q{match.group(1)}"
QLabel(digit) ==
    CASE digit = <<"1">> -> "Q1"
      [] digit = <<"2">> -> "Q2"
      [] digit = <<"3">> -> "Q3"
      [] digit = <<"4">> -> "Q4"

_extract_quarter(text) ==
    LET t == lower(text)
        byWord == LazySearch(t, LitStarts(t, re_quarter), Len(re_quarter), OneToFour, 1)
    IN  IF QnStarts(t) # {} THEN QLabel(<<t[Least(QnStarts(t)) + 1]>>)
        ELSE IF byWord # NoText THEN QLabel(byWord)
        ELSE IF Contains(t, re_first_quarter) THEN "Q1"
        ELSE IF Contains(t, re_second_quarter) THEN "Q2"
        ELSE IF Contains(t, re_third_quarter) THEN "Q3"
        ELSE IF Contains(t, re_fourth_quarter) THEN "Q4"
        ELSE NONE

_extract_audit_status(text) ==
    IF Contains(text, kw_unaudited) THEN "unaudited"
    ELSE IF Contains(text, kw_audited) THEN "audited"
    ELSE NONE

\* The dictionary of extracted fields; isNone marks Python's None.
Info(p, ty, fy, q, a) ==
    [isNone |-> FALSE, period |-> p, type |-> ty, financial_year |-> fy,
     quarter |-> q, audit_status |-> a]
NoInfo ==
    [isNone |-> TRUE, period |-> NoText, type |-> NONE, financial_year |-> NoText,
     quarter |-> NONE, audit_status |-> NONE]

_extract_financial_info_from_text(self, announcement) ==
    LET full_text == lower(announcement.NEWSSUB \o <<" ">> \o announcement.MORE)
        extracted_info == Info(_extract_period(full_text),
                               _extract_result_type(full_text),
                               _extract_financial_year(full_text),
                               _extract_quarter(full_text),
                               _extract_audit_status(full_text))
    IN  \* any(extracted_info.values())
        IF \/ extracted_info.period # NoText
           \/ extracted_info.type # NONE
           \/ extracted_info.financial_year # NoText
           \/ extracted_info.quarter # NONE
           \/ extracted_info.audit_status # NONE
        THEN extracted_info
        ELSE NoInfo

\* process_announcements: category, subject, the classification and the
\* extraction of one announcement, by the processor self.
Classified(self, announcement) ==
    LET category == Strip(announcement.CATEGORYNAME)
        subject  == lower(announcement.NEWSSUB)
    IN  [is_financial   |-> _is_financial_announcement(self, category, subject),
         confidence     |-> _determine_confidence(self, category, subject),
         extracted_data |-> _extract_financial_info_from_text(self, announcement)]

\* self.stats of the processor
ProcInitialStats ==
    [processed |-> 0, financial_announcements |-> 0, pdfs_downloaded |-> 0,
     xbrl_found |-> 0, extraction_successful |-> 0, extraction_failed |-> 0]

ClassifyInputs ==
    {[CATEGORYNAME |-> cat, NEWSSUB |-> sub, MORE |-> more] :
        cat \in Categories, sub \in Headlines, more \in Bodies}

MaxRuns == 2         \* times the same announcement is classified

VARIABLES
    cl_announcement,  \* the announcement classified
    cl_stats,         \* the processor's stats at the time
    cl_runs           \* the results of the runs so far

classifyVars == <<cl_announcement, cl_stats, cl_runs>>

ClassifyOff ==
    /\ cl_announcement = [CATEGORYNAME |-> "", NEWSSUB |-> NoText, MORE |-> NoText]
    /\ cl_stats = ProcInitialStats
    /\ cl_runs = <<>>

InitClassify ==
    /\ cl_announcement \in ClassifyInputs
    /\ cl_stats = ProcInitialStats
    /\ cl_runs = <<>>

\* One run of the classifier and the extractor on the announcement, as a turn of
\* the loop of process_announcements makes it; the counters move on.
classify_run ==
    /\ Len(cl_runs) < MaxRuns
    /\ LET self == Processor([cl_stats EXCEPT !.processed = @ + 1])
           run  == Classified(self, cl_announcement)
       IN  /\ cl_runs' = Append(cl_runs, run)
           /\ cl_stats' =
                 IF run.is_financial
                 THEN [self.stats EXCEPT !.financial_announcements = @ + 1]
                 ELSE self.stats
    /\ UNCHANGED cl_announcement

(***************************************************************************)
(* Part V.  BSEPDFStorage: the attachment store.  An object of the bucket  *)
(* is its path and whether its bytes begin with '%PDF'.                    *)
(***************************************************************************)
MaxDownloads == 2    \* calls of download_and_store_pdf in one behaviour
MaxClock == 1        \* seconds the clock advances in one behaviour

\* download_and_store_pdf(..., max_retries=3)
pdf_max_retries == 3

\* datetime.now(): the wall clock stands in July 2026, at second "clock".
ClockDatetime(clock) == [year |-> 2026, month |-> 7, rest |-> "now", tick |-> clock]

\* datetime.fromisoformat(filing_date.replace('Z', '+00:00')) succeeds: the
\* string is there, and its fraction has 3 or 6 digits or the interpreter
\* (Python 3.11 and later) accepts any number of them.
IsoParsable(filing_date, lenient) ==
    /\ filing_date # NoDt
    /\ \/ filing_date.frac = <<>>
       \/ Len(filing_date.frac) \in {3, 6}
       \/ lenient

\* The object path "{folder}/{year}/{month}/{symbol}_{%Y%m%d_%H%M%S}.pdf".
PdfPath(folder, date_obj, symbol) ==
    [folder |-> folder, year |-> date_obj.year, month |-> date_obj.month,
     symbol |-> symbol, stamp |-> [rest |-> date_obj.rest, tick |-> date_obj.tick]]
NoPath == PdfPath(NONE, [year |-> 0, month |-> 0, rest |-> "", tick |-> 0], NONE)

\* generate_pdf_path, called at second "clock" under the given interpreter.
generate_pdf_path(symbol, filing_date, confidence, clock, lenient) ==
    LET date_obj == IF IsoParsable(filing_date, lenient)
                    THEN [year |-> filing_date.year, month |-> filing_date.month,
                          rest |-> filing_date.rest, tick |-> 0]
                    ELSE ClockDatetime(clock)
        folder == CASE confidence = "HIGH" -> "financial-results"
                    [] confidence = "MEDIUM" -> "board-meetings"
                    [] OTHER -> "raw-downloads"
    IN  PdfPath(folder, date_obj, symbol)

\* What download_and_store_pdf returns: a path, the string "PDF Moved" or None.
Returned(kind, path) == [kind |-> kind, path |-> path]
ReturnedNone == Returned("None", NoPath)
ReturnedMoved == Returned("PDF Moved", NoPath)

\* f"{self.bse_attachment_live}/{attachment}" and
\* f"{self.bse_attachment_moved}/{year}/{month}/{attachment}"
Url(dir, year_month, attachment) ==
    [dir |-> dir, year_month |-> year_month, attachment |-> attachment]
NoUrl == Url("", <<>>, "")
LiveUrl(attachment) == Url("AttachLive", <<>>, attachment)
MovedUrl(date, attachment) == Url("AttachHis", <<date.year, date.month>>, attachment)

DownloadArgs(url, symbol, filing_date, confidence) ==
    [pdf_url |-> url, symbol |-> symbol, filing_date |-> filing_date,
     confidence |-> confidence]
NoArgs == DownloadArgs(NoUrl, "", NoDt, "")

\* The calls made on the store when it is driven alone.
DownloadInputs ==
    {DownloadArgs(LiveUrl("a.pdf"), "500001", dt, conf) :
        dt \in {T1, T1h, NoDt}, conf \in {"HIGH", "LOW"}}

\* self.stats of the store
PdfInitialStats == [uploaded |-> 0, failed |-> 0, cached |-> 0, session_initialized |-> FALSE]

\* What the upstream answers to the download of one attempt, and whether
\* put_object then succeeds.
DownloadResponses == {"200 pdf", "200 pdf, put fails", "200 other", "403", "404", "500",
                      "Timeout"}

VARIABLES
    objects,          \* the bucket: a set of [path, is_pdf]
    pdf_stats,        \* BSEPDFStorage.stats
    now,              \* the wall clock, in seconds
    lenient_iso,      \* the interpreter's fromisoformat accepts short fractions
    dl_pc,            \* download_and_store_pdf: "idle", "init", "exists", "attempt", "return"
    dl_args,          \* its arguments
    minio_path,       \* its local of that name
    dl_attempt,       \* its loop variable "attempt"
    dl_result,        \* the value it returns
    dl_calls,         \* calls made so far
    dl_existed,       \* history: the object was in the bucket when the call began
    dl_http,          \* history: HTTP requests the call has sent to the upstream
    dl_put,           \* history: put_object calls of the call that succeeded
    dl_log,           \* history: the warm-ups and responses of the call in progress
    paths_seen        \* history: the arguments and result of each generate_pdf_path

storeVars == <<objects, pdf_stats, now, lenient_iso, dl_pc, dl_args, minio_path,
               dl_attempt, dl_result, dl_calls, dl_existed, dl_http, dl_put, dl_log,
               paths_seen>>

StoreOff ==
    /\ objects = {} /\ pdf_stats = PdfInitialStats /\ now = 0 /\ lenient_iso = TRUE
    /\ dl_pc = "off" /\ dl_args = NoArgs /\ minio_path = NoPath /\ dl_attempt = 0
    /\ dl_result = ReturnedNone /\ dl_calls = 0 /\ dl_existed = FALSE
    /\ dl_http = 0 /\ dl_put = 0 /\ dl_log = <<>> /\ paths_seen = {}

\* BSEPDFStorage.__init__; the bucket is empty or holds the PDF of one filing.
InitStore ==
    /\ objects \in {{}, {[path |-> generate_pdf_path("500001", T1, "HIGH", 0, TRUE),
                          is_pdf |-> TRUE]}}
    /\ pdf_stats = PdfInitialStats
    /\ now = 0
    /\ lenient_iso \in BOOLEAN
    /\ dl_pc = "idle" /\ dl_args = NoArgs /\ minio_path = NoPath /\ dl_attempt = 0
    /\ dl_result = ReturnedNone /\ dl_calls = 0 /\ dl_existed = FALSE
    /\ dl_http = 0 /\ dl_put = 0 /\ dl_log = <<>> /\ paths_seen = {}

\* _pdf_exists(minio_path)
_pdf_exists(bucket, path) == \E o \in bucket : o.path = path

\* client.put_object(bucket_name, object_name, data, ...): the object is
\* created or replaced.
put_object(bucket, path, is_pdf) ==
    {o \in bucket : o.path # path} \cup {[path |-> path, is_pdf |-> is_pdf]}

\* The entry of download_and_store_pdf with arguments a.
CallDownload(a) ==
    /\ dl_pc = "idle"
    /\ dl_calls < MaxDownloads
    /\ dl_calls' = dl_calls + 1
    /\ dl_args' = a
    /\ dl_pc' = "init"
    /\ dl_attempt' = 0
    /\ minio_path' = NoPath
    /\ dl_result' = ReturnedNone
    /\ dl_existed' = _pdf_exists(objects, generate_pdf_path(a.symbol, a.filing_date,
                                                            a.confidence, now, lenient_iso))
    /\ dl_http' = 0
    /\ dl_put' = 0
    /\ dl_log' = <<>>
    /\ UNCHANGED <<objects, pdf_stats, now, lenient_iso, paths_seen>>

download_and_store_pdf == \E a \in DownloadInputs : CallDownload(a)

\* "if not self._initialize_bse_session()": an initialized session sends
\* nothing; otherwise the homepage is fetched and, on status 200, the
\* announcements page; any other status or an exception of either request makes
\* it return False, and download_and_store_pdf counts a failure and returns None.
_initialize_bse_session ==
    /\ dl_pc = "init"
    /\ IF pdf_stats.session_initialized
       THEN /\ dl_pc' = "exists"
            /\ UNCHANGED <<pdf_stats, dl_http, dl_result, dl_log>>
       ELSE \E outcome \in {"200, 200", "200, exception", "not 200", "exception"} :
               /\ dl_http' = dl_http + (IF outcome \in {"200, 200", "200, exception"}
                                        THEN 2 ELSE 1)
               /\ dl_log' = Append(dl_log, "warm-up")
               /\ IF outcome = "200, 200"
                  THEN /\ pdf_stats' = [pdf_stats EXCEPT !.session_initialized = TRUE]
                       /\ dl_pc' = "exists"
                       /\ UNCHANGED dl_result
                  ELSE /\ pdf_stats' = [pdf_stats EXCEPT !.failed = @ + 1]
                       /\ dl_result' = ReturnedNone
                       /\ dl_pc' = "return"
    /\ UNCHANGED <<objects, now, lenient_iso, dl_args, minio_path, dl_attempt, dl_calls,
                   dl_existed, dl_put, paths_seen>>

\* minio_path = self.generate_pdf_path(...); if self._pdf_exists(minio_path): ...
check_exists ==
    /\ dl_pc = "exists"
    /\ LET path == generate_pdf_path(dl_args.symbol, dl_args.filing_date,
                                     dl_args.confidence, now, lenient_iso)
       IN  /\ minio_path' = path
           /\ paths_seen' = paths_seen \cup
                 {[symbol |-> dl_args.symbol, filing_date |-> dl_args.filing_date,
                   confidence |-> dl_args.confidence, path |-> path]}
           /\ IF _pdf_exists(objects, path)
              THEN /\ pdf_stats' = [pdf_stats EXCEPT !.cached = @ + 1]
                   /\ dl_result' = Returned("path", path)
                   /\ dl_pc' = "return"
              ELSE /\ dl_pc' = "attempt"
                   /\ UNCHANGED <<pdf_stats, dl_result>>
    /\ dl_attempt' = 0
    /\ UNCHANGED <<objects, now, lenient_iso, dl_args, dl_calls, dl_existed, dl_http,
                   dl_put, dl_log>>

\* Variant: the loop without its ceiling.
NextAttemptAlways ==
    /\ dl_attempt' = dl_attempt + 1
    /\ UNCHANGED <<dl_pc, dl_result>>
    /\ pdf_stats' = pdf_stats

\* After a turn of the for loop that neither returned nor was the last: the
\* next attempt; after the last: "All attempts failed".
NextAttemptOrFail ==
    IF dl_attempt < pdf_max_retries - 1
    THEN /\ dl_attempt' = dl_attempt + 1
         /\ UNCHANGED <<dl_pc, dl_result>>
         /\ pdf_stats' = pdf_stats
    ELSE /\ dl_attempt' = dl_attempt
         /\ pdf_stats' = [pdf_stats EXCEPT !.failed = @ + 1]
         /\ dl_result' = ReturnedNone
         /\ dl_pc' = "return"

\* Whether the turn of the loop goes on to put_object after a 200 response: a
\* payload without the '%PDF' header is retried while attempts remain, and
\* uploaded on the last attempt.
uploads(is_pdf, attempt_index) == is_pdf \/ ~(attempt_index < pdf_max_retries - 1)

\* One turn of "for attempt in range(max_retries)".
download_attempt ==
    /\ dl_pc = "attempt"
    /\ dl_http' = dl_http + 1
    /\ \E response_kind \in DownloadResponses :
          /\ dl_log' = Append(dl_log, response_kind)
          /\ CASE response_kind \in {"200 pdf", "200 other"} /\ uploads(response_kind = "200 pdf", dl_attempt) ->
                  /\ objects' = put_object(objects, minio_path, response_kind = "200 pdf")
                  /\ pdf_stats' = [pdf_stats EXCEPT !.uploaded = @ + 1]
                  /\ dl_put' = dl_put + 1
                  /\ dl_result' = Returned("path", minio_path)
                  /\ dl_pc' = "return"
                  /\ UNCHANGED dl_attempt
            [] response_kind \in {"200 pdf", "200 other"} /\ ~uploads(response_kind = "200 pdf", dl_attempt) ->
                  /\ NextAttemptOrFail
                  /\ UNCHANGED <<objects, dl_put>>
            [] response_kind = "403" ->
                  \* the session is marked for re-initialization while attempts remain
                  /\ dl_attempt' = IF dl_attempt < pdf_max_retries - 1
                                   THEN dl_attempt + 1 ELSE dl_attempt
                  /\ pdf_stats' =
                        IF dl_attempt < pdf_max_retries - 1
                        THEN [pdf_stats EXCEPT !.session_initialized = FALSE]
                        ELSE [pdf_stats EXCEPT !.failed = @ + 1]
                  /\ dl_result' = IF dl_attempt < pdf_max_retries - 1
                                  THEN dl_result ELSE ReturnedNone
                  /\ dl_pc' = IF dl_attempt < pdf_max_retries - 1 THEN dl_pc ELSE "return"
                  /\ UNCHANGED <<objects, dl_put>>
            [] response_kind = "404" ->
                  /\ dl_result' = ReturnedMoved
                  /\ dl_pc' = "return"
                  /\ UNCHANGED <<objects, pdf_stats, dl_put, dl_attempt>>
            [] OTHER ->
                  \* another status, a timeout, an exception (of put_object too)
                  /\ NextAttemptOrFail
                  /\ UNCHANGED <<objects, dl_put>>
    /\ UNCHANGED <<now, lenient_iso, dl_args, minio_path, dl_calls, dl_existed, paths_seen>>

\* The caller has the value returned.
download_return ==
    /\ dl_pc = "return"
    /\ dl_pc' = "idle"
    /\ dl_log' = <<>>
    /\ UNCHANGED <<objects, pdf_stats, now, lenient_iso, dl_args, minio_path, dl_attempt,
                   dl_result, dl_calls, dl_existed, dl_http, dl_put, paths_seen>>

\* A second passes (the sleeps of the store, the time between calls).
tick ==
    /\ dl_pc # "off"
    /\ now < MaxClock
    /\ now' = now + 1
    /\ UNCHANGED <<objects, pdf_stats, lenient_iso, dl_pc, dl_args, minio_path, dl_attempt,
                   dl_result, dl_calls, dl_existed, dl_http, dl_put, dl_log, paths_seen>>

(***************************************************************************)
(* Part VI.  usage_example.main: FinancialDataProcessor.process_announcements *)
(* on the fetched list, with the attachment store of Part V and the        *)
(* database of Part I (one thread, worker w1), and then                    *)
(* insert_financial_snapshots on the list it returns.                      *)
(***************************************************************************)
MaxAnns == 2         \* announcements in the list handed to process_announcements

\* An announcement with the fields process_announcements reads.
Ann(sc, nd, cat, sub, more, att) ==
    [SCRIP_CD |-> sc, SLONGNAME |-> "Acme Ltd", NEWS_DT |-> nd, DT_TM |-> NoDt,
     CATEGORYNAME |-> cat, NEWSSUB |-> sub, MORE |-> more, ATTACHMENTNAME |-> att]

T2 == DtString(2025, 8, "-02T09:30:00", <<>>)

\* A result with figures in the headline; a board meeting whose text names no
\* period, type, year, quarter or audit status; a 'Results' filing without
\* attachment; a result with an attachment and nothing to extract; a filing
\* that is not financial.
A_result     == Ann("500001", T1,  "Result",         H_quarter_ended, M_empty, "a.pdf")
A_board      == Ann("500001", T1h, "Board Meeting",  H_consideration, M_empty, "b.pdf")
A_no_attach  == Ann("500001", T2,  "Results",        H_agm,           M_empty, "")
A_result_agm == Ann("500001", T1,  "Result",         H_agm,           M_empty, "a.pdf")
A_update     == Ann("500001", T2,  "Company Update", H_agm,           M_empty, "c.pdf")
\* A result whose NEWS_DT is missing.
A_undated    == Ann("500001", NoDt, "Result",        H_quarter_ended, M_empty, "a.pdf")

PipelineAnnouncements == {A_result, A_board, A_no_attach, A_result_agm, A_update, A_undated}

\* The rows an earlier insert_announcements of these filings left in the table.
RECURSIVE StoredAnnouncements(_, _)
StoredAnnouncements(table, anns) ==
    IF anns = <<>> THEN table
    ELSE StoredAnnouncements(UpsertAnnouncement(table, _prepare_announcement_data(Head(anns))),
                             Tail(anns))

\* The path string f"{folder}/{filename}" of the paths the pipeline stores under;
\* a path made from the clock carries the second it was made at.
PathText(path) ==
    CASE path = generate_pdf_path("500001", T1, "HIGH", 0, TRUE) ->
            "financial-results/2025/07/500001_20250718_120102.pdf"
      [] path = generate_pdf_path("500001", T2, "HIGH", 0, TRUE) ->
            "financial-results/2025/08/500001_20250802_093000.pdf"
      [] path = PdfPath("financial-results", ClockDatetime(0), "500001") ->
            "financial-results/2026/07/500001_20260701_000000.pdf"
      [] path = PdfPath("financial-results", ClockDatetime(1), "500001") ->
            "financial-results/2026/07/500001_20260701_000001.pdf"
      [] path = PdfPath("financial-results", ClockDatetime(2), "500001") ->
            "financial-results/2026/07/500001_20260701_000002.pdf"
      [] OTHER -> "another path"

\* The value download_and_store_pdf returned, as the string (or None) it is.
PathString(returned) ==
    CASE returned.kind = "None" -> NONE
      [] returned.kind = "PDF Moved" -> "PDF Moved"
      [] OTHER -> PathText(returned.path)

\* bool(minio_path): None is falsy, every non-empty string is truthy.
Truthy(returned) == returned.kind # "None"

\* int(text) of a text of digits
DecimalDigits == <<"0", "1", "2", "3", "4", "5", "6", "7", "8", "9">>
DigitValue(c) == (CHOOSE i \in 1..10 : DecimalDigits[i] = c) - 1
RECURSIVE TextToInt(_)
TextToInt(t) ==
    IF t = <<>> THEN 0
    ELSE 10 * TextToInt(SubSeq(t, 1, Len(t) - 1)) + DigitValue(t[Len(t)])

\* The period text the extractor returns ("30.06.2025", "2025" or None), as
\* the period string _parse_fy_end receives.
PeriodString(text) ==
    IF text = NoText THEN NoPeriod
    ELSE IF Len(text) = 10 /\ DateAt(text, 1)
         THEN DottedPeriod(TextToInt(SubSeq(text, 1, 2)), TextToInt(SubSeq(text, 4, 5)),
                           TextToInt(SubSeq(text, 7, 10)))
         ELSE YearPeriod(TextToInt(text))

\* The processed_data dictionary of one financial announcement.
ProcessedData(self, announcement) ==
    LET category == Strip(announcement.CATEGORYNAME)
        subject  == lower(announcement.NEWSSUB)
    IN  [symbol           |-> announcement.SCRIP_CD,
         company          |-> announcement.SLONGNAME,
         category         |-> category,
         subject          |-> announcement.NEWSSUB,
         date             |-> parse_iso_datetime(announcement.NEWS_DT),
         attachment_name  |-> announcement.ATTACHMENTNAME,
         confidence       |-> _determine_confidence(self, category, subject),
         extracted_data   |-> NoInfo,
         pdf_url          |-> NoUrl,
         processing_status |-> "pending",
         has_pdf_status   |-> FALSE,       \* the keys pdf_stored and minio_path are set
         pdf_stored       |-> FALSE,
         minio_path       |-> NONE]
NoProcessedData == ProcessedData(Processor(ProcInitialStats), Ann(NONE, NoDt, NONE, NoText, NoText, ""))

\* The dictionary as insert_financial_snapshots reads it: symbol, date and the
\* extracted_data with its period string.
SnapshotOf(p) ==
    Processed(p.symbol, p.date,
              IF p.extracted_data.isNone THEN NoneExtracted
              ELSE Extracted(PeriodString(p.extracted_data.period),
                             p.extracted_data.quarter, p.extracted_data.audit_status))

SnapshotsOf(finance) == [i \in 1..Len(finance) |-> SnapshotOf(finance[i])]

\* high_conf[:3] of main
RECURSIVE SelectHigh(_)
SelectHigh(finance) ==
    IF finance = <<>> THEN <<>>
    ELSE IF Head(finance).confidence = "HIGH"
         THEN <<Head(finance)>> \o SelectHigh(Tail(finance))
         ELSE SelectHigh(Tail(finance))
FirstThree(s) == SubSeq(s, 1, IF Len(s) < 3 THEN Len(s) ELSE 3)

VARIABLES
    bse_data,         \* main: the list handed to process_announcements
    pa_pc,            \* main and process_announcements: the position
    ann_i,            \* process_announcements: position of its for loop
    processed_data,   \* its local of that name
    finance_data,     \* its local of that name, and what it returns
    proc_stats,       \* FinancialDataProcessor.stats
    pa_exception      \* the exception that left process_announcements or main, or "none"

pipeVars == <<bse_data, pa_pc, ann_i, processed_data, finance_data, proc_stats,
              pa_exception>>

PipelineOff ==
    /\ bse_data = <<>> /\ pa_pc = "off" /\ ann_i = 1
    /\ processed_data = NoProcessedData /\ finance_data = <<>>
    /\ proc_stats = ProcInitialStats
    /\ pa_exception = "none"

\* main up to the call of process_announcements: the manager, the processor and
\* its store are constructed and a non-empty list was fetched; the table holds
\* the filings of an earlier run, or nothing.
InitPipeline ==
    /\ bse_data \in SeqsUpTo(PipelineAnnouncements, MaxAnns) \ {<<>>}
    /\ pa_pc = "loop" /\ ann_i = 1
    /\ processed_data = NoProcessedData /\ finance_data = <<>>
    /\ proc_stats = ProcInitialStats
    /\ pa_exception = "none"
    /\ announcements \in
          {EmptyBag,
           StoredAnnouncements(EmptyBag, <<A_result, A_board, A_no_attach, A_update>>)}
    /\ financial_snapshots = EmptyBag
    /\ stats = InitialStats
    /\ max_connections = 1
    /\ checkedOut = 0
    /\ pc = [w \in Workers |-> "idle"]
    /\ op = [w \in Workers |-> "none"]
    /\ data = [w \in Workers |-> <<>>]
    /\ idx = [w \in Workers |-> 1]
    /\ conn = [w \in Workers |-> FALSE]
    /\ tx = [w \in Workers |-> <<>>]
    /\ result = [w \in Workers |-> "none"]
    /\ processed_count = [w \in Workers |-> 0]
    /\ faulted = [w \in Workers |-> FALSE]
    /\ work = 0
    /\ lastUpsert = <<>>
    /\ patchedSince = {}
    /\ prevRun = NoRun

\* finance_data.append(processed_data) and the next turn of the loop.
AppendAndNext(p) ==
    /\ finance_data' = Append(finance_data, p)
    /\ processed_data' = p
    /\ ann_i' = ann_i + 1
    /\ pa_pc' = "loop"

\* One turn of "for announcement in anns", up to the first download call (or to
\* the append, for a filing without attachment).  A NEWS_DT that
\* parse_iso_datetime rejects raises out of process_announcements.
process_announcement ==
    /\ pa_pc = "loop"
    /\ ann_i <= Len(bse_data)
    /\ LET announcement == bse_data[ann_i]
           self == Processor([proc_stats EXCEPT !.processed = @ + 1])
           category == Strip(announcement.CATEGORYNAME)
           subject == lower(announcement.NEWSSUB)
       IN  /\ IF ~_is_financial_announcement(self, category, subject)
              THEN /\ proc_stats' = self.stats
                   /\ ann_i' = ann_i + 1
                   /\ UNCHANGED <<pa_pc, processed_data, finance_data, storeVars>>
              ELSE /\ proc_stats' = [self.stats EXCEPT !.financial_announcements = @ + 1]
                   /\ IF announcement.NEWS_DT = NoDt
                      THEN /\ pa_pc' = "raised"
                           /\ UNCHANGED <<ann_i, processed_data, finance_data, storeVars>>
                      ELSE IF announcement.ATTACHMENTNAME = ""
                      THEN /\ AppendAndNext(ProcessedData(self, announcement))
                           /\ UNCHANGED storeVars
                      ELSE /\ processed_data' =
                                 [ProcessedData(self, announcement) EXCEPT
                                     !.pdf_url = LiveUrl(announcement.ATTACHMENTNAME)]
                           /\ CallDownload(DownloadArgs(LiveUrl(announcement.ATTACHMENTNAME),
                                                        announcement.SCRIP_CD,
                                                        announcement.NEWS_DT, "HIGH"))
                           /\ pa_pc' = "download"
                           /\ UNCHANGED <<ann_i, finance_data>>
           /\ pa_exception' =
                 IF /\ _is_financial_announcement(self, category, subject)
                    /\ announcement.NEWS_DT = NoDt
                 THEN "ValueError: NEWS_DT" ELSE pa_exception
    /\ UNCHANGED <<bse_data, dbVars>>

\* The first download returned: 'if minio_path.lower() == "pdf moved"' raises
\* AttributeError on None, sends the loop to the second download on "PDF Moved",
\* and goes on with the path otherwise.
after_download ==
    /\ pa_pc = "download"
    /\ download_return
    /\ pa_pc' = CASE dl_result.kind = "None" -> "raised"
                  [] dl_result.kind = "PDF Moved" -> "moved"
                  [] OTHER -> "patch"
    /\ pa_exception' = IF dl_result.kind = "None"
                       THEN "AttributeError: minio_path.lower()" ELSE pa_exception
    /\ UNCHANGED <<bse_data, ann_i, processed_data, finance_data, proc_stats, dbVars>>

\* The second download, from the archive URL of the filing's year and month.
download_moved ==
    /\ pa_pc = "moved"
    /\ LET announcement == bse_data[ann_i]
       IN  CallDownload(DownloadArgs(MovedUrl(announcement.NEWS_DT,
                                              announcement.ATTACHMENTNAME),
                                     announcement.SCRIP_CD, announcement.NEWS_DT, "HIGH"))
    /\ pa_pc' = "download again"
    /\ UNCHANGED <<bse_data, ann_i, processed_data, finance_data, proc_stats, pa_exception,
                   dbVars>>

after_download_moved ==
    /\ pa_pc = "download again"
    /\ download_return
    /\ pa_pc' = "patch"
    /\ UNCHANGED <<bse_data, ann_i, processed_data, finance_data, proc_stats, pa_exception,
                   dbVars>>

\* pdf_stored and minio_path are set from the value returned, and
\* updated_pdf_status is called with them.
call_updated_pdf_status ==
    /\ pa_pc = "patch"
    /\ processed_data' = [processed_data EXCEPT !.has_pdf_status = TRUE,
                                                !.pdf_stored = Truthy(dl_result),
                                                !.minio_path = PathString(dl_result)]
    /\ Call("w1", "updated_pdf_status",
            <<PdfArgs(processed_data.symbol, processed_data.date,
                      PathString(dl_result), Truthy(dl_result))>>, FALSE)
    /\ pa_pc' = "patching"
    /\ UNCHANGED <<bse_data, ann_i, finance_data, proc_stats, pa_exception, storeVars>>

\* updated_pdf_status returned or raised; after it the extraction, the counters
\* and the append.
after_updated_pdf_status ==
    /\ pa_pc = "patching"
    /\ leave("w1")
    /\ IF result["w1"] = "raised"
       THEN /\ pa_pc' = "raised"
            /\ UNCHANGED <<ann_i, processed_data, finance_data, proc_stats>>
       ELSE LET self == Processor(proc_stats)
                extracted_info == _extract_financial_info_from_text(self, bse_data[ann_i])
            IN  IF ~extracted_info.isNone
                THEN /\ AppendAndNext([processed_data EXCEPT
                                         !.extracted_data = extracted_info,
                                         !.processing_status = "success"])
                     /\ proc_stats' = [proc_stats EXCEPT !.extraction_successful = @ + 1]
                ELSE /\ AppendAndNext([processed_data EXCEPT
                                         !.processing_status = "no_data_found"])
                     /\ proc_stats' = [proc_stats EXCEPT !.extraction_failed = @ + 1]
    /\ pa_exception' = IF result["w1"] = "raised" THEN "database error" ELSE pa_exception
    /\ UNCHANGED <<bse_data, storeVars>>

\* process_announcements returns finance_data; main prints the sample of the
\* first three high-confidence items, where extracted.get raises AttributeError
\* on an extracted_data of None, and passes a non-empty list to
\* insert_financial_snapshots.
main_insert_financial_snapshots ==
    /\ pa_pc = "loop"
    /\ ann_i > Len(bse_data)
    /\ LET high_conf == FirstThree(SelectHigh(finance_data))
           sample_raises == \E i \in 1..Len(high_conf) : high_conf[i].extracted_data.isNone
       IN  /\ IF finance_data = <<>>
              THEN /\ pa_pc' = "done"
                   /\ UNCHANGED dbVars
              ELSE IF sample_raises
              THEN /\ pa_pc' = "raised"
                   /\ UNCHANGED dbVars
              ELSE /\ Call("w1", "insert_financial_snapshots", SnapshotsOf(finance_data),
                           FALSE)
                   /\ pa_pc' = "inserting"
           /\ pa_exception' = IF finance_data # <<>> /\ sample_raises
                              THEN "AttributeError: extracted.get" ELSE pa_exception
    /\ UNCHANGED <<bse_data, ann_i, processed_data, finance_data, proc_stats, storeVars>>

\* insert_financial_snapshots returned or raised.
main_end ==
    /\ pa_pc = "inserting"
    /\ leave("w1")
    /\ pa_pc' = IF result["w1"] = "raised" THEN "raised" ELSE "done"
    /\ pa_exception' = IF result["w1"] = "raised" THEN "database error" ELSE pa_exception
    /\ UNCHANGED <<bse_data, ann_i, processed_data, finance_data, proc_stats, storeVars>>

(***************************************************************************)
(* Part VII.  The request paths of the two fetchers:                       *)
(* BSEAnnouncementsFetcher._make_request and                               *)
(* NSEAnnouncementsFetcher._make_request, one call each, with the log of   *)
(* what the call sent and how long it slept.                               *)
(***************************************************************************)
\* NSEAnnouncementsFetcher._make_request(..., max_retries=3)
nse_max_retries == 3

RECURSIVE Pow2(_)
Pow2(n) == IF n = 0 THEN 1 ELSE 2 * Pow2(n - 1)

\* random.uniform(lo, hi), in whole seconds: the two ends and the middle.
Uniform(lo, hi) == {lo, (lo + hi) \div 2, hi}

\* Variant: the jitter without the exponential factor.
nse_wait_time_flat(attempt_index, jitter) == jitter

\* wait_time = (2 ** attempt) * random.uniform(10, 20)
nse_wait_time(attempt_index, jitter) == Pow2(attempt_index) * jitter

\* wait_time = random.uniform(5, 15) * (attempt + 1)
pdf_wait_time(attempt_index, jitter) == jitter * (attempt_index + 1)

\* time.sleep(2 ** attempt)
bse_backoff(attempt_index) == Pow2(attempt_index)

\* One entry of the log of a call.
Event(ev, status, seconds) == [ev |-> ev, status |-> status, seconds |-> seconds]
Referer(status) == Event("referer", status, 0)
Response(status) == Event("response", status, 0)
Sleep(seconds) == Event("sleep", "", seconds)
WarmUp(status) == Event("warm-up", status, 0)

BseStatuses == {"200", "403", "404", "500", "RequestException"}

VARIABLES
    rq_path,          \* the fetcher whose _make_request runs: "bse", "nse" ("off": none)
    rq_pc,            \* "attempt", "return"
    rq_attempt,       \* the loop variable attempt
    rq_log,           \* history: requests, sleeps and warm-ups of the call, in order
    rq_result         \* what the call returns: "data" (response.json()) or NONE

requestVars == <<rq_path, rq_pc, rq_attempt, rq_log, rq_result>>

RequestOff ==
    /\ rq_path = "off" /\ rq_pc = "off" /\ rq_attempt = 0 /\ rq_log = <<>>
    /\ rq_result = NONE

\* The entry of _make_request of one of the fetchers.
InitRequest ==
    /\ rq_path \in {"bse", "nse"} /\ rq_pc = "attempt" /\ rq_attempt = 0
    /\ rq_log = <<>> /\ rq_result = NONE

\* The end of a turn that did not return: the next attempt, or "return None"
\* after the last.
NextTurn(max, entries) ==
    /\ rq_log' = rq_log \o entries
    /\ IF rq_attempt + 1 < max
       THEN /\ rq_attempt' = rq_attempt + 1
            /\ UNCHANGED <<rq_pc, rq_result>>
       ELSE /\ rq_pc' = "return"
            /\ rq_result' = NONE
            /\ UNCHANGED rq_attempt

\* One turn of the for loop of BSEAnnouncementsFetcher._make_request: the GET;
\* status 200 returns the data; any other status and a RequestException are
\* logged, the call sleeps 2 ** attempt seconds and goes on.
bse_make_request ==
    /\ rq_path = "bse" /\ rq_pc = "attempt"
    /\ rq_attempt < max_retries
    /\ \E status \in BseStatuses :
          IF status = "200"
          THEN /\ rq_log' = Append(rq_log, Response(status))
               /\ rq_result' = "data"
               /\ rq_pc' = "return"
               /\ UNCHANGED rq_attempt
          ELSE NextTurn(max_retries, <<Response(status), Sleep(bse_backoff(rq_attempt))>>)
    /\ UNCHANGED rq_path

\* self._initialize_session(): one GET of the homepage; its failure is logged
\* and nothing else.
NseWarmUps == {WarmUp("200"), WarmUp("403"), WarmUp("RequestException")}

\* One turn of the for loop of NSEAnnouncementsFetcher._make_request: the GET of
\* the referer page, the GET of the URL; 200 returns the data; 403, 429 and
\* 503 sleep (2 ** attempt) * uniform(10, 20) and re-initialize the session;
\* another status is logged; a RequestException of either GET sleeps
\* uniform(15, 30) and re-initializes while attempts remain.
nse_make_request ==
    /\ rq_path = "nse" /\ rq_pc = "attempt"
    /\ rq_attempt < nse_max_retries
    /\ \/ /\ rq_log' = rq_log \o <<Referer("200"), Response("200")>>
          /\ rq_result' = "data"
          /\ rq_pc' = "return"
          /\ UNCHANGED rq_attempt
       \/ \E status \in {"403", "429", "503"}, jitter \in Uniform(10, 20),
             warm_up \in NseWarmUps :
             NextTurn(nse_max_retries,
                      <<Referer("200"), Response(status),
                        Sleep(nse_wait_time(rq_attempt, jitter)), warm_up>>)
       \/ \E status \in {"404", "500"} :
             NextTurn(nse_max_retries, <<Referer("200"), Response(status)>>)
       \/ \E sent \in {<<Referer("RequestException")>>,
                       <<Referer("200"), Response("RequestException")>>},
             jitter \in {15, 30}, warm_up \in NseWarmUps :
             NextTurn(nse_max_retries,
                      sent \o (IF rq_attempt < nse_max_retries - 1
                               THEN <<Sleep(jitter), warm_up>> ELSE <<>>))
    /\ UNCHANGED rq_path

(***************************************************************************)
(* The retry delays after a blocked response, as functions of the attempt  *)
(* index and the jitter: samples of them, taken on any path at any attempt *)
(* at which the path sleeps after a block.                                 *)
(***************************************************************************)
MaxSamples == 2      \* delays sampled in one behaviour

\* The attempts at which a path sleeps after a block, and its jitter.
BlockAttempts(path) ==
    CASE path = "nse" -> 0..(nse_max_retries - 1)
      [] path = "pdf" -> 0..(pdf_max_retries - 2)
      [] OTHER -> 0..(max_retries - 1)
BlockJitter(path) ==
    CASE path = "nse" -> Uniform(10, 20)
      [] path = "pdf" -> Uniform(5, 15)
      [] OTHER -> {0}
block_delay(path, attempt_index, jitter) ==
    CASE path = "nse" -> nse_wait_time(attempt_index, jitter)
      [] path = "pdf" -> pdf_wait_time(attempt_index, jitter)
      [] OTHER -> bse_backoff(attempt_index)

VARIABLES
    delays_seen       \* the delays sampled: the path, the attempt and the seconds

backoffVars == <<delays_seen>>

BackoffOff == delays_seen = {}
InitBackoff == delays_seen = {}

\* One blocked response on one of the paths, and the delay chosen after it.
sample_delay ==
    /\ Cardinality(delays_seen) < MaxSamples
    /\ \E path \in {"bse", "nse", "pdf"} :
          \E a \in BlockAttempts(path), jitter \in BlockJitter(path) :
             delays_seen' = delays_seen \cup
                {[path |-> path, attempt |-> a, seconds |-> block_delay(path, a, jitter)]}

(***************************************************************************)
(* Part VIII.  FilingsCrawler.run_daily_crawl and run_date_range_crawl: the *)
(* three stages, each inside its own try/except, and the summary.  A list  *)
(* of self.results is modelled by its length, which is all the summary     *)
(* reads.                                                                  *)
(***************************************************************************)
MaxFetched == 2      \* announcements one fetcher returns

\* What a fetcher or the processor raises; all are subclasses of Exception.
StageExceptions == {"RequestException", "AttributeError", "OSError"}

\* What a call inside a stage does: it returns a list of n items, or raises.
Outcome(kind, n, exc) == [kind |-> kind, n |-> n, exc |-> exc]
ReturnsList(n) == Outcome("list", n, NONE)
Raises(exc) == Outcome("raise", 0, exc)
StageOutcomes(max) ==
    {ReturnsList(n) : n \in 0..max} \cup {Raises(e) : e \in StageExceptions}

\* Variant: a handler for the transport errors only.
except_RequestException(exc) == exc = "RequestException"

\* "except Exception as e:" whether the handler of a stage takes the exception.
except_Exception(exc) == exc \in StageExceptions

NoSummary == [nse_announcements_count |-> -1, bse_announcements_count |-> -1,
              financial_data_count |-> -1, total_announcements |-> -1,
              financial_statistics |-> [processed |-> -1]]

VARIABLES
    run_kind,           \* "daily", "range" ("off": no run)
    run_pc,             \* "nse", "bse", "process", "summary", "returned", "raised"
    crawl_results,      \* self.results, every list by its length
    nse_success,
    bse_success,
    financial_success,
    crawl_stats,        \* financial_data_processor.stats
    summary,            \* what the run returns
    stages_raised       \* history: the stages whose body raised

crawlVars == <<run_kind, run_pc, crawl_results, nse_success, bse_success,
               financial_success, crawl_stats, summary, stages_raised>>

CrawlOff ==
    /\ run_kind = "off" /\ run_pc = "off"
    /\ crawl_results = [nse_announcements |-> 0, bse_announcements |-> 0, financial_data |-> 0]
    /\ nse_success = FALSE /\ bse_success = FALSE /\ financial_success = FALSE
    /\ crawl_stats = [processed |-> 0]
    /\ summary = NoSummary
    /\ stages_raised = {}

\* FilingsCrawler.__init__ and the entry of one of the two runs.
InitCrawl ==
    /\ run_kind \in {"daily", "range"} /\ run_pc = "nse"
    /\ crawl_results = [nse_announcements |-> 0, bse_announcements |-> 0, financial_data |-> 0]
    /\ nse_success = FALSE /\ bse_success = FALSE /\ financial_success = FALSE
    /\ crawl_stats = [processed |-> 0]
    /\ summary = NoSummary
    /\ stages_raised = {}

\* The end of a stage whose body raised exc: the handler logs and returns
\* False, or the exception leaves the run.
StageRaised(stage, exc, next_pc) ==
    /\ stages_raised' = stages_raised \cup {stage}
    /\ run_pc' = IF except_Exception(exc) THEN next_pc ELSE "raised"

\* nse_success = self.fetch_nse_data(...)
fetch_nse_data ==
    /\ run_pc = "nse"
    /\ \E o \in StageOutcomes(MaxFetched) :
          IF o.kind = "raise"
          THEN /\ StageRaised("nse", o.exc, "bse")
               /\ UNCHANGED <<crawl_results, nse_success>>
          ELSE /\ crawl_results' = IF o.n > 0
                                  THEN [crawl_results EXCEPT !.nse_announcements = o.n]
                                  ELSE crawl_results
               /\ nse_success' = (o.n > 0)
               /\ run_pc' = "bse"
               /\ UNCHANGED stages_raised
    /\ UNCHANGED <<run_kind, bse_success, financial_success, crawl_stats, summary>>

\* bse_success = self.fetch_bse_data(...)
fetch_bse_data ==
    /\ run_pc = "bse"
    /\ \E o \in StageOutcomes(MaxFetched) :
          IF o.kind = "raise"
          THEN /\ StageRaised("bse", o.exc, "process")
               /\ UNCHANGED <<crawl_results, bse_success>>
          ELSE /\ crawl_results' = IF o.n > 0
                                  THEN [crawl_results EXCEPT !.bse_announcements = o.n]
                                  ELSE crawl_results
               /\ bse_success' = (o.n > 0)
               /\ run_pc' = "process"
               /\ UNCHANGED stages_raised
    /\ UNCHANGED <<run_kind, nse_success, financial_success, crawl_stats, summary>>

\* "if nse_success or bse_success: financial_success =
\* self.process_financial_data()": process_announcements goes through some of
\* the announcements and returns the financial records or raises; after it
\* save_financial_data or the logging of the high-confidence records may raise.
process_financial_data ==
    /\ run_pc = "process"
    /\ LET combined == crawl_results.nse_announcements + crawl_results.bse_announcements
       IN  IF ~(nse_success \/ bse_success) \/ combined = 0
           THEN /\ run_pc' = "summary"
                /\ UNCHANGED <<crawl_results, financial_success, crawl_stats, stages_raised>>
           ELSE \E o \in StageOutcomes(combined), seen \in 1..combined,
                   after \in {NONE} \cup StageExceptions :
                   /\ o.kind = "list" => seen = combined
                   /\ (o.kind = "raise" \/ o.n = 0) => after = NONE
                   /\ crawl_stats' = [crawl_stats EXCEPT !.processed = @ + seen]
                   /\ crawl_results' = IF o.kind = "list" /\ o.n > 0
                                       THEN [crawl_results EXCEPT !.financial_data = o.n]
                                       ELSE crawl_results
                   /\ financial_success' = (o.kind = "list" /\ o.n > 0 /\ after = NONE)
                   /\ IF o.kind = "raise" THEN StageRaised("financial", o.exc, "summary")
                      ELSE IF after # NONE THEN StageRaised("financial", after, "summary")
                      ELSE (run_pc' = "summary" /\ UNCHANGED stages_raised)
    /\ UNCHANGED <<run_kind, nse_success, bse_success, summary>>

\* summary = self.generate_summary(); return summary
generate_summary ==
    /\ run_pc = "summary"
    /\ summary' = [nse_announcements_count |-> crawl_results.nse_announcements,
                   bse_announcements_count |-> crawl_results.bse_announcements,
                   financial_data_count |-> crawl_results.financial_data,
                   total_announcements |-> crawl_results.nse_announcements
                                           + crawl_results.bse_announcements,
                   financial_statistics |-> crawl_stats]
    /\ run_pc' = "returned"
    /\ UNCHANGED <<run_kind, crawl_results, nse_success, bse_success, financial_success,
                   crawl_stats, stages_raised>>

(***************************************************************************)
(* Part IX.  NSEAnnouncementsFetcher: the session and the two public fetch *)
(* operations, get_corporate_announcements and get_financial_results, each *)
(* calling _make_request of Part VII.                                      *)
(***************************************************************************)
max_session_duration == 300   \* self.max_session_duration
TickSeconds == 400            \* seconds that pass in one step of the clock
MaxTicks == 1                 \* steps of the clock in one behaviour

\* self.session_start_time: None, or the time.time() of the latest warm-up
\* that got status 200.
NoSession == [started |-> FALSE, at |-> 0]
SessionAt(t) == [started |-> TRUE, at |-> t]

\* _session_expired()
_session_expired(session, t) ==
    IF ~session.started THEN TRUE
    ELSE (t - session.at) > max_session_duration

\* What response.json() gives.
JsonShapes == {"{msg: no data found}", "{data: [...]}", "{other}", "[...]"}
IsDict(json) == json \in {"{msg: no data found}", "{data: [...]}", "{other}"}

\* is_valid_response(data): a pair (bool, message).
is_valid_response(json) ==
    IF IsDict(json)
    THEN IF json = "{msg: no data found}"
         THEN <<TRUE, "SUCCESS: API working, no announcements for this date">>
         ELSE IF json = "{data: [...]}"
              THEN <<TRUE, "SUCCESS: Found announcements">>
              ELSE <<FALSE, "Unexpected response structure">>
    ELSE <<FALSE, "Invalid response type">>

\* The truth value Python gives a tuple in "if ...:": whether it is non-empty.
TupleTruthy(t) == Len(t) > 0

\* What an operation hands to its caller.
NseReturned(value) == [kind |-> "returned", value |-> value]
NseRaised(exc) == [kind |-> "raised", value |-> exc]
NseRunning == [kind |-> "running", value |-> NONE]

\* The end of get_corporate_announcements, from "if
\* self.is_valid_response(response):" on; json is NONE when _make_request
\* returned None.
corporate_announcements_result(json) ==
    IF TupleTruthy(is_valid_response(json))
    THEN \* response.get('data', [])
         IF IsDict(json)
         THEN NseReturned(IF json = "{data: [...]}" THEN "[...]" ELSE "[]")
         ELSE NseRaised("AttributeError: get")
    ELSE IF json = "[...]" THEN NseReturned("[...]")
    ELSE NseReturned("[]")

\* The end of get_financial_results: "if data: return data if
\* isinstance(data, list) else [data]; else: return []".
financial_results_result(json) ==
    IF json = NONE THEN NseReturned("[]")
    ELSE IF json = "[...]" THEN NseReturned("[...]")
    ELSE NseReturned("[{...}]")

VARIABLES
    nse_op,             \* the operation called ("off", "none")
    nse_pc,             \* "idle", "request", "done"
    session_start_time, \* self.session_start_time
    nse_time,           \* time.time(), in seconds since the fetcher was made
    nse_json,           \* what _make_request returned to the operation
    nse_returned,       \* what the operation handed to its caller
    entry_warm_up,      \* history: the warm-up at the entry: "none", "200", "failed"
    sent_expired        \* history: an API request was sent on an expired session

nseVars == <<nse_op, nse_pc, session_start_time, nse_time, nse_json, nse_returned,
             entry_warm_up, sent_expired>>

NseOff ==
    /\ nse_op = "off" /\ nse_pc = "off" /\ session_start_time = NoSession
    /\ nse_time = 0 /\ nse_json = NONE /\ nse_returned = NseRunning
    /\ entry_warm_up = "none" /\ sent_expired = FALSE

\* NSEAnnouncementsFetcher.__init__: its warm-up got status 200 or failed.
InitNse ==
    /\ nse_op = "none" /\ nse_pc = "idle"
    /\ session_start_time \in {NoSession, SessionAt(0)}
    /\ nse_time = 0 /\ nse_json = NONE /\ nse_returned = NseRunning
    /\ entry_warm_up = "none" /\ sent_expired = FALSE

\* response = self._make_request(url, params): its first turn is next.
call_make_request ==
    /\ rq_path' = "nse" /\ rq_pc' = "attempt" /\ rq_attempt' = 0
    /\ rq_log' = <<>> /\ rq_result' = NONE

\* get_corporate_announcements up to the call of _make_request: "if not
\* self.scraper or self._session_expired(): if not
\* self._initialize_session(): return []".
get_corporate_announcements ==
    /\ nse_pc = "idle"
    /\ nse_op' = "get_corporate_announcements"
    /\ IF _session_expired(session_start_time, nse_time)
       THEN \/ /\ entry_warm_up' = "200"
               /\ session_start_time' = SessionAt(nse_time)
               /\ nse_pc' = "request"
               /\ call_make_request
               /\ UNCHANGED nse_returned
            \/ /\ entry_warm_up' = "failed"
               /\ nse_returned' = NseReturned("[]")
               /\ nse_pc' = "done"
               /\ UNCHANGED <<session_start_time, requestVars>>
       ELSE /\ nse_pc' = "request"
            /\ call_make_request
            /\ UNCHANGED <<entry_warm_up, session_start_time, nse_returned>>
    /\ UNCHANGED <<nse_time, nse_json, sent_expired>>

\* get_financial_results up to the call of _make_request.
get_financial_results ==
    /\ nse_pc = "idle"
    /\ nse_op' = "get_financial_results"
    /\ nse_pc' = "request"
    /\ call_make_request
    /\ UNCHANGED <<session_start_time, nse_time, nse_json, nse_returned, entry_warm_up,
                   sent_expired>>

\* The events a turn of _make_request added to the log.
NewEvents == SubSeq(rq_log', Len(rq_log) + 1, Len(rq_log'))

\* One turn of _make_request inside an operation: its API request goes out on
\* the session as it is; a warm-up of the turn that got status 200 sets
\* session_start_time.
make_request_turn ==
    /\ nse_pc = "request"
    /\ nse_make_request
    /\ sent_expired' =
          (sent_expired \/ (/\ \E i \in 1..Len(NewEvents) : NewEvents[i].ev = "response"
                            /\ _session_expired(session_start_time, nse_time)))
    /\ session_start_time' =
          IF \E i \in 1..Len(NewEvents) : NewEvents[i] = WarmUp("200")
          THEN SessionAt(nse_time) ELSE session_start_time
    /\ UNCHANGED <<nse_op, nse_pc, nse_time, nse_json, nse_returned, entry_warm_up>>

\* _make_request has returned: the rest of the operation.
nse_operation_end ==
    /\ nse_pc = "request" /\ rq_pc = "return"
    /\ \E json \in (IF rq_result = NONE THEN {NONE} ELSE JsonShapes) :
          /\ nse_json' = json
          /\ nse_returned' = IF nse_op = "get_corporate_announcements"
                             THEN corporate_announcements_result(json)
                             ELSE financial_results_result(json)
    /\ nse_pc' = "done"
    /\ rq_pc' = "returned"
    /\ UNCHANGED <<nse_op, session_start_time, nse_time, entry_warm_up, sent_expired,
                   rq_path, rq_attempt, rq_log, rq_result>>

\* Time passes: between the construction and the call, and in the sleeps and
\* requests of the call.
nse_tick ==
    /\ nse_pc \in {"idle", "request"}
    /\ nse_time < MaxTicks * TickSeconds
    /\ nse_time' = nse_time + TickSeconds
    /\ UNCHANGED <<nse_op, nse_pc, session_start_time, nse_json, nse_returned,
                   entry_warm_up, sent_expired, requestVars>>

(***************************************************************************)
(* Part X.  The throttle of the attachment store: the times at which the   *)
(* outbound requests of one call of download_and_store_pdf start.  Times   *)
(* are in milliseconds; a time that has reached min_request_interval is    *)
(* kept as min_request_interval.                                           *)
(***************************************************************************)
min_request_interval == 1000   \* self.min_request_interval = 1.0 (seconds)

\* How long a request may take before its response is there.
RequestMillis == {500, 1500}

\* time elapsed, d milliseconds later
Elapse(elapsed, d) ==
    IF elapsed + d >= min_request_interval THEN min_request_interval ELSE elapsed + d

\* _rate_limit(): the time the call sleeps before its request.
sleep_time(time_since_last) ==
    IF time_since_last < min_request_interval
    THEN min_request_interval - time_since_last
    ELSE 0

VARIABLES
    time_since_last,  \* time.time() - self.last_request_time
    since_start,      \* history: the time since the latest outbound request started
    request_gaps              \* history: the times between consecutive outbound requests

throttleVars == <<time_since_last, since_start, request_gaps>>

ThrottleOff ==
    /\ time_since_last = min_request_interval /\ since_start = min_request_interval
    /\ request_gaps = {}

\* BSEPDFStorage.__init__: last_request_time = 0, no request sent yet.
InitThrottle ==
    /\ time_since_last = min_request_interval /\ since_start = min_request_interval
    /\ request_gaps = {}

\* _initialize_bse_session with the times of its requests: the homepage and,
\* after status 200, the announcements page at once; time.sleep(2) after the
\* two.  _rate_limit is not called and last_request_time is not set.
warm_up_requests ==
    /\ _initialize_bse_session
    /\ \E d1, d2 \in RequestMillis :
          LET sent == dl_http' - dl_http
              slept == IF pdf_stats'.session_initialized /\ sent > 0 THEN 2000 ELSE 0
              total == (IF sent >= 1 THEN d1 ELSE 0) + (IF sent = 2 THEN d2 ELSE 0) + slept
          IN  /\ request_gaps' = request_gaps \cup (IF sent >= 1 THEN {since_start} ELSE {})
                              \cup (IF sent = 2 THEN {Elapse(0, d1)} ELSE {})
              /\ since_start' = IF sent = 0 THEN since_start
                                ELSE IF sent = 1 THEN Elapse(0, d1)
                                ELSE Elapse(0, d2 + slept)
              /\ time_since_last' = Elapse(time_since_last, total)

\* One turn of the download loop with the time of its request:
\* self._rate_limit() sleeps until min_request_interval has passed since
\* last_request_time and sets it; then the GET; every path that goes on to
\* another attempt sleeps at least two seconds.
throttled_attempt ==
    /\ download_attempt
    /\ \E d \in RequestMillis :
          LET waited == sleep_time(time_since_last)
              slept == IF dl_pc' = "attempt" THEN 2000 ELSE 0
          IN  /\ request_gaps' = request_gaps \cup {Elapse(since_start, waited)}
              /\ since_start' = Elapse(0, d + slept)
              /\ time_since_last' = Elapse(0, d + slept)

(***************************************************************************)
(* Part XI.  Two workers running download_and_store_pdf at the same time   *)
(* for the same filing, on one bucket: each from its existence check on    *)
(* (the warm-up before it touches neither the path nor the bucket).        *)
(***************************************************************************)
VARIABLES
    cc_args,          \* the arguments both workers call with
    cc_pc,            \* per worker: "exists", "attempt", "done"
    cc_path,          \* per worker: its local minio_path
    cc_attempt,       \* per worker: its loop variable "attempt"
    cc_result         \* per worker: the value its call returns

concurrentVars == <<cc_args, cc_pc, cc_path, cc_attempt, cc_result>>

ConcurrentOff ==
    /\ cc_args = NoArgs
    /\ cc_pc = [w \in Workers |-> "off"]
    /\ cc_path = [w \in Workers |-> NoPath]
    /\ cc_attempt = [w \in Workers |-> 0]
    /\ cc_result = [w \in Workers |-> ReturnedNone]

\* Both workers have called download_and_store_pdf with the same arguments.
InitConcurrent ==
    /\ cc_args \in DownloadInputs
    /\ cc_pc = [w \in Workers |-> "exists"]
    /\ cc_path = [w \in Workers |-> NoPath]
    /\ cc_attempt = [w \in Workers |-> 0]
    /\ cc_result = [w \in Workers |-> ReturnedNone]

\* minio_path = self.generate_pdf_path(...); if self._pdf_exists(minio_path):
\* return minio_path
worker_check_exists(w) ==
    /\ cc_pc[w] = "exists"
    /\ LET path == generate_pdf_path(cc_args.symbol, cc_args.filing_date,
                                     cc_args.confidence, now, lenient_iso)
       IN  /\ cc_path' = [cc_path EXCEPT ![w] = path]
           /\ IF _pdf_exists(objects, path)
              THEN /\ cc_result' = [cc_result EXCEPT ![w] = Returned("path", path)]
                   /\ cc_pc' = [cc_pc EXCEPT ![w] = "done"]
              ELSE /\ cc_pc' = [cc_pc EXCEPT ![w] = "attempt"]
                   /\ UNCHANGED cc_result
    /\ UNCHANGED <<cc_args, cc_attempt, storeVars>>

\* One turn of the download loop of worker w: the upload on a 200 response (a
\* payload that is no PDF on the last attempt only), "PDF Moved" on 404, the
\* next attempt or None otherwise.
worker_download_attempt(w) ==
    /\ cc_pc[w] = "attempt"
    /\ \E response_kind \in DownloadResponses :
          IF /\ response_kind \in {"200 pdf", "200 other"}
             /\ uploads(response_kind = "200 pdf", cc_attempt[w])
          THEN /\ objects' = put_object(objects, cc_path[w], response_kind = "200 pdf")
               /\ cc_result' = [cc_result EXCEPT ![w] = Returned("path", cc_path[w])]
               /\ cc_pc' = [cc_pc EXCEPT ![w] = "done"]
               /\ UNCHANGED cc_attempt
          ELSE IF response_kind = "404"
          THEN /\ cc_result' = [cc_result EXCEPT ![w] = ReturnedMoved]
               /\ cc_pc' = [cc_pc EXCEPT ![w] = "done"]
               /\ UNCHANGED <<objects, cc_attempt>>
          ELSE IF cc_attempt[w] < pdf_max_retries - 1
          THEN /\ cc_attempt' = [cc_attempt EXCEPT ![w] = @ + 1]
               /\ UNCHANGED <<objects, cc_result, cc_pc>>
          ELSE /\ cc_result' = [cc_result EXCEPT ![w] = ReturnedNone]
               /\ cc_pc' = [cc_pc EXCEPT ![w] = "done"]
               /\ UNCHANGED <<objects, cc_attempt>>
    /\ UNCHANGED <<cc_args, cc_path, pdf_stats, now, lenient_iso, dl_pc, dl_args,
                   minio_path, dl_attempt, dl_result, dl_calls, dl_existed, dl_http,
                   dl_put, dl_log, paths_seen>>

(***************************************************************************)
(* The specifications.                                                     *)
(***************************************************************************)
\* Neither a request path, the sampling of delays nor a crawl is in use.
RestOff == RequestOff /\ BackoffOff /\ CrawlOff /\ HistOff /\ NseOff /\ ThrottleOff /\ ConcurrentOff

vars == <<dbVars, chunkVars, fetchVars, classifyVars, storeVars, pipeVars, requestVars,
         backoffVars, crawlVars, histVars, nseVars, throttleVars, concurrentVars>>

NextDB ==
    /\ \E w \in Workers :
        \/ insert_announcements(w)
        \/ insert_financial_snapshots(w)
        \/ updated_pdf_status(w)
        \/ insert_announcements_row(w)
        \/ insert_financial_snapshots_row(w)
        \/ updated_pdf_status_execute(w)
        \/ commit(w)
        \/ database_error(w)
        \/ leave(w)
    /\ UNCHANGED <<chunkVars, fetchVars, classifyVars, storeVars, pipeVars, requestVars, backoffVars, crawlVars, histVars, nseVars, throttleVars, concurrentVars>>

\* Two workers, the three operations, any interleaving.
\* The manager constructed; the fetcher not in use.
Init == InitDB /\ ChunkOff /\ FetchOff /\ ClassifyOff /\ StoreOff /\ PipelineOff /\ RestOff

Spec == Init /\ [][NextDB]_vars

\* One worker running insert_announcements batches one after the other, with the
\* history of what was committed.
NextAnn ==
    /\ \/ insert_announcements("w1")
       \/ insert_announcements_row("w1")
       \/ commit_recorded("w1")
       \/ database_error("w1")
       \/ leave("w1")
    /\ UNCHANGED <<chunkVars, fetchVars, classifyVars, storeVars, pipeVars, requestVars, backoffVars, crawlVars, histVars, nseVars, throttleVars, concurrentVars>>

SpecAnn == Init /\ [][NextAnn]_vars

\* The database at rest: no operation is started.
DBOff == InitDB /\ max_connections = 1

\* _chunk_data_range on every date range and max_days of the model.
NextChunk ==
    /\ chunk_iteration \/ chunk_return
    /\ UNCHANGED <<dbVars, fetchVars, classifyVars, storeVars, pipeVars, requestVars, backoffVars, crawlVars, histVars, nseVars, throttleVars, concurrentVars>>

InitSpecChunk == DBOff /\ InitChunk /\ FetchOff /\ ClassifyOff /\ StoreOff /\ PipelineOff /\ RestOff

SpecChunk == InitSpecChunk /\ [][NextChunk]_vars

\* get_announcements_paginated against a finite upstream.
NextFetch ==
    /\ _make_request \/ fetch_page \/ fetch_last_page
    /\ UNCHANGED <<dbVars, chunkVars, classifyVars, storeVars, pipeVars, requestVars, backoffVars, crawlVars, histVars, nseVars, throttleVars, concurrentVars>>

InitSpecFetch == DBOff /\ ChunkOff /\ InitFetchWith({"finite"}) /\ ClassifyOff /\ StoreOff /\ PipelineOff /\ RestOff

SpecFetch == InitSpecFetch /\ [][NextFetch]_vars

InitSpecFetchFair ==
    DBOff /\ ChunkOff /\ InitFetchWith({"finite", "endless"}) /\ ClassifyOff /\ StoreOff /\ PipelineOff
    /\ RestOff

\* The same against any upstream; the fetcher, a sequential program, takes its
\* next step whenever it has one.
SpecFetchFair ==
    /\ InitSpecFetchFair
    /\ [][NextFetch]_vars
    /\ WF_vars(NextFetch)

\* The classifier and the extractor on every category, headline and body of the
\* model.
NextClassify ==
    /\ classify_run
    /\ UNCHANGED <<dbVars, chunkVars, fetchVars, storeVars, pipeVars, requestVars, backoffVars, crawlVars, histVars, nseVars, throttleVars, concurrentVars>>

InitSpecClassify == DBOff /\ ChunkOff /\ FetchOff /\ InitClassify /\ StoreOff /\ PipelineOff /\ RestOff

SpecClassify == InitSpecClassify /\ [][NextClassify]_vars

\* The attachment store alone: calls of download_and_store_pdf one after the
\* other, against any upstream, while the clock advances.
NextStore ==
    /\ \/ download_and_store_pdf
       \/ _initialize_bse_session
       \/ check_exists
       \/ download_attempt
       \/ download_return
       \/ tick
    /\ UNCHANGED <<dbVars, chunkVars, fetchVars, classifyVars, pipeVars, requestVars, backoffVars, crawlVars, histVars, nseVars, throttleVars, concurrentVars>>

InitSpecStore == DBOff /\ ChunkOff /\ FetchOff /\ ClassifyOff /\ InitStore /\ PipelineOff /\ RestOff

SpecStore == InitSpecStore /\ [][NextStore]_vars

\* main of usage_example from the call of process_announcements to its end: one
\* thread, the store and the database taking their steps inside its calls.
NextPipeline ==
    /\ \/ process_announcement
       \/ after_download
       \/ download_moved
       \/ after_download_moved
       \/ call_updated_pdf_status
       \/ after_updated_pdf_status
       \/ main_insert_financial_snapshots
       \/ main_end
       \/ /\ \/ _initialize_bse_session
             \/ check_exists
             \/ download_attempt
             \/ tick
          /\ UNCHANGED <<dbVars, pipeVars>>
       \/ /\ \/ updated_pdf_status_execute("w1")
             \/ insert_financial_snapshots_row("w1")
             \/ commit("w1")
             \/ database_error("w1")
          /\ UNCHANGED <<storeVars, pipeVars>>
    /\ UNCHANGED <<chunkVars, fetchVars, classifyVars, requestVars, backoffVars, crawlVars, histVars, nseVars, throttleVars, concurrentVars>>

InitSpecPipeline == InitPipeline /\ ChunkOff /\ FetchOff /\ ClassifyOff /\ InitStore /\ RestOff

SpecPipeline == InitSpecPipeline /\ [][NextPipeline]_vars

\* One call on one of the three request paths: download_and_store_pdf on a new
\* store, or _make_request of one of the fetchers.
single_download == dl_calls = 0 /\ download_and_store_pdf

NextRequests ==
    \/ /\ \/ single_download
          \/ _initialize_bse_session
          \/ check_exists
          \/ download_attempt
          \/ tick
       /\ UNCHANGED <<dbVars, chunkVars, fetchVars, classifyVars, pipeVars, requestVars,
                      backoffVars, crawlVars, histVars, nseVars, throttleVars, concurrentVars>>
    \/ /\ bse_make_request \/ nse_make_request
       /\ UNCHANGED <<dbVars, chunkVars, fetchVars, classifyVars, storeVars, pipeVars,
                      backoffVars, crawlVars, histVars, nseVars, throttleVars, concurrentVars>>

InitSpecRequests ==
    /\ DBOff /\ ChunkOff /\ FetchOff /\ ClassifyOff /\ PipelineOff /\ BackoffOff /\ CrawlOff
    /\ \/ InitStore /\ RequestOff
       \/ StoreOff /\ InitRequest
    /\ HistOff /\ NseOff /\ ThrottleOff /\ ConcurrentOff

\* Each path is sequential code whose sleeps and requests (every one with a
\* timeout) end: it takes its next step whenever it has one.
SpecRequests ==
    /\ InitSpecRequests
    /\ [][NextRequests]_vars
    /\ WF_vars(NextRequests)

\* The delays after a blocked response, sampled.
NextBackoff ==
    /\ sample_delay
    /\ UNCHANGED <<dbVars, chunkVars, fetchVars, classifyVars, storeVars, pipeVars,
                   requestVars, crawlVars, histVars, nseVars, throttleVars, concurrentVars>>

InitSpecBackoff ==
    /\ DBOff /\ ChunkOff /\ FetchOff /\ ClassifyOff /\ StoreOff /\ PipelineOff
    /\ RequestOff /\ CrawlOff /\ InitBackoff
    /\ HistOff /\ NseOff /\ ThrottleOff /\ ConcurrentOff

SpecBackoff == InitSpecBackoff /\ [][NextBackoff]_vars

\* One run of the crawler, every stage returning or raising.
NextCrawl ==
    /\ \/ fetch_nse_data
       \/ fetch_bse_data
       \/ process_financial_data
       \/ generate_summary
    /\ UNCHANGED <<dbVars, chunkVars, fetchVars, classifyVars, storeVars, pipeVars,
                   requestVars, backoffVars, histVars, nseVars, throttleVars, concurrentVars>>

InitSpecCrawl ==
    /\ DBOff /\ ChunkOff /\ FetchOff /\ ClassifyOff /\ StoreOff /\ PipelineOff
    /\ RequestOff /\ BackoffOff /\ InitCrawl
    /\ HistOff /\ NseOff /\ ThrottleOff /\ ConcurrentOff

SpecCrawl == InitSpecCrawl /\ [][NextCrawl]_vars

\* One worker running the batch operations and updated_pdf_status one after the
\* other, with the statistics at the call of each batch kept.
NextBatch ==
    /\ \/ batch_called("w1")
       \/ /\ \/ updated_pdf_status("w1")
             \/ insert_announcements_row("w1")
             \/ insert_financial_snapshots_row("w1")
             \/ updated_pdf_status_execute("w1")
             \/ commit("w1")
             \/ database_error("w1")
             \/ leave("w1")
          /\ UNCHANGED histVars
    /\ UNCHANGED <<chunkVars, fetchVars, classifyVars, storeVars, pipeVars, requestVars,
                   backoffVars, crawlVars, nseVars, throttleVars, concurrentVars>>

InitSpecBatch ==
    /\ DBOff /\ ChunkOff /\ FetchOff /\ ClassifyOff /\ StoreOff /\ PipelineOff
    /\ RequestOff /\ BackoffOff /\ CrawlOff /\ HistOff /\ NseOff /\ ThrottleOff /\ ConcurrentOff

SpecBatch == InitSpecBatch /\ [][NextBatch]_vars

\* One public fetch operation of the NSE fetcher, on a session of any age.
NextNse ==
    /\ \/ get_corporate_announcements
       \/ get_financial_results
       \/ make_request_turn
       \/ nse_operation_end
       \/ nse_tick
    /\ UNCHANGED <<dbVars, chunkVars, fetchVars, classifyVars, storeVars, pipeVars,
                   backoffVars, crawlVars, histVars, throttleVars, concurrentVars>>

InitSpecNse ==
    /\ DBOff /\ ChunkOff /\ FetchOff /\ ClassifyOff /\ StoreOff /\ PipelineOff
    /\ RequestOff /\ BackoffOff /\ CrawlOff /\ HistOff /\ InitNse /\ ThrottleOff /\ ConcurrentOff

SpecNse == InitSpecNse /\ [][NextNse]_vars

\* One call of download_and_store_pdf on a new store, with the times of its
\* outbound requests.
NextThrottle ==
    /\ \/ single_download /\ UNCHANGED throttleVars
       \/ warm_up_requests
       \/ check_exists /\ UNCHANGED throttleVars
       \/ throttled_attempt
    /\ UNCHANGED <<dbVars, chunkVars, fetchVars, classifyVars, pipeVars, requestVars,
                   backoffVars, crawlVars, histVars, nseVars, concurrentVars>>

InitSpecThrottle ==
    /\ DBOff /\ ChunkOff /\ FetchOff /\ ClassifyOff /\ InitStore /\ PipelineOff
    /\ RequestOff /\ BackoffOff /\ CrawlOff /\ HistOff /\ NseOff /\ InitThrottle /\ ConcurrentOff

SpecThrottle == InitSpecThrottle /\ [][NextThrottle]_vars

\* Two workers in download_and_store_pdf for the same filing, in any
\* interleaving, on an empty bucket, while the clock advances.
NextConcurrent ==
    /\ \/ \E w \in Workers : worker_check_exists(w) \/ worker_download_attempt(w)
       \/ tick /\ UNCHANGED concurrentVars
    /\ UNCHANGED <<dbVars, chunkVars, fetchVars, classifyVars, pipeVars, requestVars,
                   backoffVars, crawlVars, histVars, nseVars, throttleVars>>

InitSpecConcurrent ==
    /\ DBOff /\ ChunkOff /\ FetchOff /\ ClassifyOff /\ InitStore /\ objects = {}
    /\ PipelineOff /\ RequestOff /\ BackoffOff /\ CrawlOff /\ HistOff /\ NseOff
    /\ ThrottleOff /\ InitConcurrent

SpecConcurrent == InitSpecConcurrent /\ [][NextConcurrent]_vars







(***************************************************************************)
(* Properties of the persistence layer.                                    *)
(***************************************************************************)
Idle == \A w \in Workers : pc[w] = "idle"
Finished(w, o) == pc[w] = "exit" /\ op[w] = o
HasKey(table, d) == \E r \in Rows(table) : SameKey(r, d)

\* C1: in every reachable state, under any interleaving of the three
\* operations, each row of financial_snapshots (committed, or written by an
\* open transaction) has an announcements row with the same
\* (symbol, filing_date); a snapshot without one is skipped.
C1_SnapshotHasAnnouncement ==
    /\ \A r \in Rows(financial_snapshots) : HasKey(announcements, r)
    /\ \A w \in Workers : \A i \in 1..Len(tx[w]) :
          tx[w][i].table = "financial_snapshots" => HasKey(announcements, tx[w][i].arg[1])

\* A snapshot batch has returned having written one snapshot and skipped another.
C1_Witness ==
    \E w \in Workers :
        /\ Finished(w, "insert_financial_snapshots") /\ result[w] = "returned"
        /\ processed_count[w] >= 1 /\ processed_count[w] < Len(data[w])
        /\ financial_snapshots # EmptyBag

\* C2: a committed run of insert_announcements on the batch of the previous
\* committed run, with the table as that run left it, leaves the table as it is:
\* same keys, same row contents, no additional row.
C2_RerunIdempotent ==
    [][\A w \in Workers :
          ( /\ op[w] = "insert_announcements"
            /\ pc[w] = "body" /\ pc'[w] = "exit" /\ result'[w] = "returned"
            /\ prevRun.data = data[w] /\ prevRun.table = announcements )
          => announcements' = announcements]_vars

\* The previous batch was run a second time, on a table that is not empty.
C2_Witness == prevRun.repeat /\ announcements # EmptyBag /\ prevRun.table = announcements

\* C3: after any sequence of committed insert_announcements batches the table has
\* at most one row per (symbol, filing_date), each row equals in every field the
\* data of the latest committed upsert for its key, and a key once present stays.
C3_State ==
    /\ \A r \in Rows(announcements) : CopiesIn(r, announcements) = 1
    /\ \A r1, r2 \in Rows(announcements) : SameKey(r1, r2) => r1 = r2
    /\ \A r \in Rows(announcements) :
          KeyOf(r) \in DOMAIN lastUpsert /\ lastUpsert[KeyOf(r)] = r
    /\ \A k \in DOMAIN lastUpsert : \E r \in Rows(announcements) : KeyOf(r) = k

C3_LastWriterWins ==
    /\ []C3_State
    /\ [][\A r \in Rows(announcements) : HasKey(announcements', r)]_vars

\* A committed batch upserted one key twice with different contents, and the
\* table holds the second.
C3_Witness ==
    \E w \in Workers :
        /\ Finished(w, "insert_announcements") /\ result[w] = "returned"
        /\ Len(data[w]) >= 2
        /\ LET d1 == _prepare_announcement_data(data[w][1])
               d2 == _prepare_announcement_data(data[w][2])
           IN  SameKey(d1, d2) /\ d1 # d2 /\ d2 \in Rows(announcements)

\* C4 (as claimed): insert_announcements on a batch holding a record without
\* symbol or without filing timestamp, the database failing no statement, returns
\* normally, has processed every other record, and their keys are in the table.
C4_SkipsWithoutRaising ==
    \A w \in Workers :
        ( /\ Finished(w, "insert_announcements") /\ conn[w] /\ ~faulted[w]
          /\ \E i \in 1..Len(data[w]) : _prepare_announcement_data(data[w][i]) = NoneData )
        => /\ result[w] = "returned"
           /\ processed_count[w] =
                Cardinality({i \in 1..Len(data[w]) :
                               _prepare_announcement_data(data[w][i]) # NoneData})
           /\ \A i \in 1..Len(data[w]) :
                 _prepare_announcement_data(data[w][i]) # NoneData
                 => HasKey(announcements, _prepare_announcement_data(data[w][i]))

\* C5: the step in which a batch operation fails leaves both tables as they are,
\* discards what the batch wrote and raises; the tables change only in the step
\* in which an operation commits and returns.
C5_FailedBatchCommitsNothing ==
    [][ /\ \A w \in Workers :
              (result[w] = "running" /\ result'[w] = "raised")
              => /\ announcements' = announcements
                 /\ financial_snapshots' = financial_snapshots
                 /\ tx'[w] = <<>>
        /\ (announcements' # announcements \/ financial_snapshots' # financial_snapshots)
           => \E w \in Workers : result[w] = "running" /\ result'[w] = "returned"
      ]_vars

\* A batch operation has raised after it had written at least one row.
C5_Witness ==
    \E w \in Workers :
        /\ pc[w] = "exit" /\ op[w] \in BatchOps /\ result[w] = "raised"
        /\ processed_count[w] >= 1

\* C6: the commit of updated_pdf_status(symbol, filing_date, path, stored) leaves
\* financial_snapshots and the number of announcements rows as they are; when its
\* UPDATE found the row with that key it sets minio_path and pdf_stored of that
\* row and changes nothing else, and when it found none it changes nothing.
C6_PatchFrame ==
    [][\A w \in Workers :
          ( /\ op[w] = "updated_pdf_status"
            /\ pc[w] = "body" /\ pc'[w] = "exit" /\ result'[w] = "returned" )
          => LET a == data[w][1]
                 patched(r) == IF SameKey(r, a)
                               THEN [r EXCEPT !.minio_path = a.minio_path,
                                              !.pdf_stored = a.pdf_stored]
                               ELSE r
             IN  /\ financial_snapshots' = financial_snapshots
                 /\ BagCardinality(announcements') = BagCardinality(announcements)
                 /\ IF tx[w] # <<>>
                    THEN Rows(announcements') = {patched(r) : r \in Rows(announcements)}
                    ELSE announcements' = announcements
                 /\ (~HasKey(announcements, a) => announcements' = announcements)
      ]_vars

\* Of two rows of one symbol, one has been patched as stored and the other not.
C6_Witness ==
    /\ \E r1, r2 \in Rows(announcements) :
          r1.symbol = r2.symbol /\ r1.pdf_stored /\ ~r2.pdf_stored
    /\ \E w \in Workers : Finished(w, "updated_pdf_status") /\ result[w] = "returned"

\* C7: the pool's count of connections out equals the number of operations
\* holding one, never exceeds max_connections, and is zero when no operation runs.
C7_ConnectionsReturned ==
    /\ checkedOut = Cardinality({w \in Workers : conn[w]})
    /\ checkedOut <= max_connections
    /\ \A w \in Workers : conn[w] => pc[w] \in {"body", "exit"}
    /\ Idle => checkedOut = 0

\* No operation runs, after one that raised inside its transaction.
C7_Witness == Idle /\ stats.errors >= 1 /\ checkedOut = 0

(***************************************************************************)
(* Properties of the fetcher.                                              *)
(***************************************************************************)
\* C8: for every range with from <= to and every max_days >= 1 the chunks
\* returned are calendar dates in ascending order, each with start <= end and at
\* most max_days days, the first starting at from, the last ending at to, each
\* next one starting the day after the previous one ends.
C8_ChunksPartitionRange ==
    (chunk_pc = "done" /\ strptime(start_date) <= strptime(end_date))
    => /\ Len(chunks) >= 1
       /\ chunks[1][1] = start_date
       /\ chunks[Len(chunks)][2] = end_date
       /\ \A i \in 1..Len(chunks) :
             /\ strptime(chunks[i][1]) <= strptime(chunks[i][2])
             /\ strptime(chunks[i][2]) - strptime(chunks[i][1]) + 1 <= max_days
             /\ (chunks[i][1] \div 100) % 100 \in 1..12
             /\ chunks[i][1] % 100 \in
                  1..DaysInMonth(chunks[i][1] \div 10000, (chunks[i][1] \div 100) % 100)
       /\ \A i \in 1..(Len(chunks) - 1) :
             strptime(chunks[i + 1][1]) = strptime(chunks[i][2]) + 1

\* A range over the leap day and the end of February, cut into several chunks of
\* which the last is shorter than max_days.
C8_Witness ==
    /\ chunk_pc = "done" /\ start_date = 20240227 /\ end_date = 20240302
    /\ max_days = 3 /\ Len(chunks) = 2

RECURSIVE FlattenTables(_)
FlattenTables(log) ==
    IF log = <<>> THEN <<>> ELSE Head(log).table \o FlattenTables(Tail(log))

\* C9: what the fetcher holds (and at the end returns) is the pages received, in
\* the order received, each page's records in their order; the pages were asked
\* for chunk by chunk in the order of the chunks, and within a chunk as page 1,
\* 2, ... without a gap.
C9_OrderPreserved ==
    /\ all_announcements \o chunk_announcements = FlattenTables(received)
    /\ (fetch_pc = "done" => all_announcements = FlattenTables(received))
    /\ \A i \in 1..Len(received) :
          /\ received[i].params = date_chunks[received[i].chunk]
          /\ IF i > 1 /\ received[i - 1].chunk = received[i].chunk
             THEN received[i].page = received[i - 1].page + 1
             ELSE /\ received[i].page = 1
                  /\ i > 1 => received[i - 1].chunk < received[i].chunk

\* A fetch over several chunks has ended with pages of two chunks, one of them
\* with two pages of different contents.
C9_Witness ==
    /\ fetch_pc = "done" /\ Len(received) >= 3
    /\ \E i \in 2..Len(received) :
          /\ received[i].chunk = received[i - 1].chunk
          /\ received[i].table # received[i - 1].table
    /\ \E i \in 2..Len(received) : received[i].chunk # received[i - 1].chunk

\* C11: when a page request of a chunk has failed on every attempt, the fetcher
\* does not stop: the step that follows adds the pages the chunk had gathered
\* to the result and goes on to the next chunk, or ends the fetch after the last
\* one; at the end every page received is in the result and the fetch stands at
\* the last chunk.
C11_FailedChunkKeepsPages ==
    /\ [][(fetch_pc = "data" /\ response = NoResponse)
            => /\ all_announcements' = all_announcements \o chunk_announcements
               /\ IF chunk_no < Len(date_chunks)
                  THEN fetch_pc' = "page" /\ chunk_no' = chunk_no + 1 /\ page_no' = 1
                  ELSE fetch_pc' = "done"]_vars
    /\ []((fetch_pc = "done" /\ gaps # {})
            => /\ chunk_no = Len(date_chunks)
               /\ all_announcements = FlattenTables(received))

\* A fetch has ended in which a chunk failed after a page of it had been
\* received, and a later chunk delivered a page.
C11_Witness ==
    /\ fetch_pc = "done"
    /\ \E g \in gaps :
          /\ \E i \in 1..Len(received) : received[i].chunk = g
          /\ \E i \in 1..Len(received) : received[i].chunk > g

\* C10 (as claimed): get_announcements_paginated ends, whatever the upstream sends.
C10_Terminates == <>(fetch_pc = "done")

(***************************************************************************)
(* Properties of the classifier and the extractor.                         *)
(***************************************************************************)
\* The headlines of the model that contain a board keyword (one of them in
\* capitals), and those that contain a high-confidence keyword.
BoardHeadlines == {H_board_approve, H_quarter_ended, H_consideration}
ResultHeadlines == {H_board_approve, H_quarter_ended, H_financial_results}

\* C12 (as claimed): every announcement whose category is 'Result' or 'Results' is
\* classified financial with confidence HIGH, whatever the headline.
C12_ResultsCategoryHigh ==
    \A i \in 1..Len(cl_runs) :
        Strip(cl_announcement.CATEGORYNAME) \in {"Result", "Results"}
        => cl_runs[i].is_financial /\ cl_runs[i].confidence = "HIGH"

\* C13: a 'Board Meeting' announcement whose headline contains a board keyword,
\* in whatever case, is classified financial with confidence MEDIUM.
C13_BoardMeetingMedium ==
    \A i \in 1..Len(cl_runs) :
        ( /\ cl_announcement.CATEGORYNAME = "Board Meeting"
          /\ cl_announcement.NEWSSUB \in BoardHeadlines )
        => cl_runs[i].is_financial /\ cl_runs[i].confidence = "MEDIUM"

\* A board-meeting announcement whose only board keyword is written in capitals
\* has been classified.
C13_Witness ==
    /\ cl_runs # <<>>
    /\ cl_announcement.CATEGORYNAME = "Board Meeting"
    /\ cl_announcement.NEWSSUB = H_board_approve

\* C14 (as claimed): in every category a headline with a high-confidence keyword
\* is classified financial, with confidence LOW when neither the results rule
\* nor the board-meeting rule applies; an announcement that matches none of the
\* three rules is classified non-financial.
C14_KeywordHeadlineFinancial ==
    \A i \in 1..Len(cl_runs) :
        LET results == Strip(cl_announcement.CATEGORYNAME) \in {"Result", "Results"}
            board   == /\ cl_announcement.CATEGORYNAME = "Board Meeting"
                       /\ cl_announcement.NEWSSUB \in BoardHeadlines
            keyword == cl_announcement.NEWSSUB \in ResultHeadlines
        IN  /\ keyword => cl_runs[i].is_financial
            /\ (keyword /\ ~results /\ ~board) => cl_runs[i].confidence = "LOW"
            /\ (~results /\ ~board /\ ~keyword) => ~cl_runs[i].is_financial

\* "30.06.2025"
P_30_06_2025 == <<"3", "0", ".", "0", "6", ".", "2", "0", "2", "5">>

\* C15 (as claimed): the text "unaudited standalone results for quarter ended
\* 30.06.2025" yields type standalone, audit status unaudited, period
\* 30.06.2025 and no quarter; a quarter label is given only to a text with a
\* q1..q4 token or a spelled-out ordinal quarter.
C15_QuarterNeedsToken ==
    \A i \in 1..Len(cl_runs) :
        /\ (cl_announcement.NEWSSUB = H_quarter_ended /\ cl_announcement.MORE = M_empty)
           => cl_runs[i].extracted_data =
                 Info(P_30_06_2025, "standalone", NoText, NONE, "unaudited")
        /\ cl_runs[i].extracted_data.quarter # NONE
           => cl_announcement.NEWSSUB \in {H_board_approve, H_first_quarter}

\* C17: two runs on the same category, headline and body give the same
\* classification, confidence and extracted fields, whatever the counters of the
\* processor were at each run.
C17_Deterministic ==
    \A i, j \in 1..Len(cl_runs) : cl_runs[i] = cl_runs[j]

\* A financial announcement has been classified twice, the counters having moved
\* between the runs.
C17_Witness ==
    /\ Len(cl_runs) = 2
    /\ cl_runs[1].is_financial
    /\ cl_runs[1].extracted_data # NoInfo
    /\ cl_stats.financial_announcements = 2

(***************************************************************************)
(* Properties of the attachment store.                                     *)
(***************************************************************************)
\* C18: generate_pdf_path gives the same path for the same symbol, filing
\* timestamp string and confidence, whatever the time of the call.
C18_PathIndependentOfClock ==
    \A p, q \in paths_seen :
        (p.symbol = q.symbol /\ p.filing_date = q.filing_date /\ p.confidence = q.confidence)
            => p.path = q.path

\* C19: a call of download_and_store_pdf that finds the object in the bucket
\* at the path of its arguments returns that path, having sent no HTTP request
\* to the upstream and uploaded nothing.
C19_CacheHitWithoutNetwork ==
    (dl_pc = "return" /\ dl_existed /\ IsoParsable(dl_args.filing_date, lenient_iso))
        => /\ dl_result = Returned("path", generate_pdf_path(dl_args.symbol, dl_args.filing_date,
                                                             dl_args.confidence, now, lenient_iso))
           /\ dl_http = 0
           /\ dl_put = 0

\* C20: no object of the bucket has bytes that do not begin with '%PDF', and
\* a call whose every attempt got status 200 with another payload ends in
\* failure.
C20_OnlyPdfUploaded == \A o \in objects : o.is_pdf

(***************************************************************************)
(* Properties of the pipeline.                                             *)
(***************************************************************************)
\* C16: when the list process_announcements returned is passed to
\* insert_financial_snapshots, every row of financial_snapshots (committed, or
\* written by the open transaction) comes from a record with extracted data:
\* a financial announcement whose extracted fields are all null, or for which
\* no extraction was performed, inserts or updates no row.
C16_NoSnapshotWithoutData ==
    \A r \in Rows(TxView("w1", "financial_snapshots")) :
        \E i \in 1..Len(finance_data) :
            /\ SameKey(r, _prepare_snapshot_data(SnapshotOf(finance_data[i])))
            /\ ~finance_data[i].extracted_data.isNone

\* The position of the first "404" in the log of a call, or 0.
First404(log) ==
    IF \E i \in 1..Len(log) : log[i] = "404"
    THEN CHOOSE i \in 1..Len(log) : log[i] = "404" /\ \A j \in 1..(i - 1) : log[j] # "404"
    ELSE 0

\* C21: a 404 of the primary URL ends the download call at once with the
\* not-found result; process_announcements then makes one download call
\* against the archive URL of the filing's year and month; and when that call
\* ends with not-found too the attachment is reported as not stored.
C21_NotFoundThenOneFallback ==
    /\ First404(dl_log) # 0 =>
          /\ First404(dl_log) = Len(dl_log)
          /\ dl_pc = "return" /\ dl_result = ReturnedMoved
    /\ pa_pc = "download again" =>
          dl_args.pdf_url = MovedUrl(bse_data[ann_i].NEWS_DT, bse_data[ann_i].ATTACHMENTNAME)
    /\ (pa_pc = "patching" /\ dl_result = ReturnedMoved) =>
          /\ dl_args.pdf_url.dir = "AttachHis"
          /\ ~processed_data.pdf_stored
          /\ processed_data.minio_path = NONE

\* C22: no failure local to one announcement (a download that failed after
\* all retries, a missing NEWS_DT) leaves process_announcements as an
\* exception: the loop goes on and the call returns.
C22_LocalFailureContained ==
    pa_exception \notin {"AttributeError: minio_path.lower()", "ValueError: NEWS_DT"}

\* C24: when main has fed the fetched batch through the pipeline, one
\* announcement upsert was counted per raw announcement and one snapshot
\* upsert per financial announcement, and every snapshot row has its
\* announcement row.
C24_OneUpsertPerRecord ==
    pa_pc = "done" =>
       /\ stats.announcements_inserted + stats.announcements_updated = Len(bse_data)
       /\ stats.snapshots_inserted + stats.snapshots_updated = Len(finance_data)
       /\ \A r \in Rows(financial_snapshots) : HasKey(announcements, r)

\* The folder of a confidence tier.
TierFolder(confidence) ==
    CASE confidence = "HIGH" -> "financial-results"
      [] confidence = "MEDIUM" -> "board-meetings"
      [] OTHER -> "raw-downloads"

\* C25: the object stored for a filing lies under the folder of the filing's
\* classified confidence tier, followed by the filing's year and month.
C25_FolderOfClassifiedTier ==
    (pa_pc = "patch" /\ dl_result.kind = "path"
       /\ IsoParsable(bse_data[ann_i].NEWS_DT, lenient_iso)) =>
       /\ dl_result.path.folder = TierFolder(processed_data.confidence)
       /\ dl_result.path.year = bse_data[ann_i].NEWS_DT.year
       /\ dl_result.path.month = bse_data[ann_i].NEWS_DT.month

\* C26: after any sequence of insert_announcements batches that all
\* committed, announcements_inserted is the number of rows the batches
\* created; a re-run of an unchanged batch adds nothing to it.
C26_InsertedCountsCreatedRows ==
    (pc["w1"] = "idle" /\ stats.errors = 0) =>
        stats.announcements_inserted = BagCardinality(announcements)



(***************************************************************************)
(* Properties of the request paths.                                        *)
(***************************************************************************)
\* The requests a call of _make_request sent to its URL.
Requests(log) == Cardinality({i \in 1..Len(log) : log[i].ev = "response"})

\* The requests a call of download_and_store_pdf sent to pdf_url.
StoreRequests(log) == Cardinality({i \in 1..Len(log) : log[i] # "warm-up"})

\* The failures after which the store goes on to another attempt: a status
\* other than 200 and 404, a timeout, an exception.
RetriableFailures == {"403", "500", "Timeout", "200 pdf, put fails"}

AttemptCeiling ==
    /\ StoreRequests(dl_log) <= pdf_max_retries
    /\ Requests(rq_log) <= (IF rq_path = "nse" THEN nse_max_retries ELSE max_retries)
    /\ (/\ dl_pc = "return"
        /\ dl_log # <<>>
        /\ \A i \in 1..Len(dl_log) : dl_log[i] \in RetriableFailures \cup {"warm-up"}
        /\ dl_log[Len(dl_log)] # "warm-up")
          => dl_result = ReturnedNone
    /\ (rq_pc = "return" /\ rq_log[Len(rq_log)] # Response("200"))
          => rq_result = NONE

C28_NotFoundEndsRequest ==
    /\ First404(dl_log) # 0 => (First404(dl_log) = Len(dl_log) /\ dl_pc = "return")
    /\ \A i \in 1..Len(rq_log) :
          rq_log[i] = Response("404") => (i = Len(rq_log) /\ rq_pc = "return")

\* The statuses each path treats as a block.
NseBlocks == {"403", "429", "503"}

\* C29: after a block response (403, 429 or 503 for the NSE fetcher, 403 for
\* the store) the session is marked expired and a warm-up is performed before
\* the next request attempt is sent, also within the same call.
C29_WarmUpAfterBlock ==
    /\ \A i, j \in 1..Len(dl_log) :
          (i < j /\ dl_log[i] = "403" /\ dl_log[j] # "warm-up")
             => \E k \in (i + 1)..(j - 1) : dl_log[k] = "warm-up"
    /\ (dl_pc = "attempt" /\ dl_log # <<>> /\ dl_log[Len(dl_log)] = "403")
          => ~pdf_stats.session_initialized
    /\ \A i, j \in 1..Len(rq_log) :
          (/\ i < j
           /\ rq_log[i].ev = "response" /\ rq_log[i].status \in NseBlocks
           /\ rq_path = "nse"
           /\ rq_log[j].ev \in {"referer", "response"})
             => \E k \in (i + 1)..(j - 1) : rq_log[k].ev = "warm-up"


\* Twice the expected delay of a path at an attempt: the delay is the jitter,
\* uniform on an interval, times a factor, so its mean is the middle of the
\* least and the greatest delay.
TwiceExpectedDelay(path, attempt_index) ==
    LET D == {block_delay(path, attempt_index, j) : j \in BlockJitter(path)}
    IN  (CHOOSE x \in D : \A y \in D : x <= y) + (CHOOSE x \in D : \A y \in D : x >= y)

\* C30: after a blocked response the delay grows with the attempt: any delay of
\* attempt 0 is less than any delay of attempt 2 of the same path (NSE:
\* (2 ** attempt) * uniform(10, 20)), and the expected delay is strictly
\* increasing in the attempt on each path that retries after a block.
C30_DelayGrowsWithAttempt ==
    \A s, t \in delays_seen :
        s.path = t.path =>
           /\ (s.attempt = 0 /\ t.attempt = 2) => s.seconds < t.seconds
           /\ s.attempt < t.attempt =>
                 TwiceExpectedDelay(s.path, s.attempt) < TwiceExpectedDelay(t.path, t.attempt)

\* The NSE fetcher slept its longest at attempt 0 and its shortest at attempt 2.
C30_Witness ==
    /\ [path |-> "nse", attempt |-> 0, seconds |-> 20] \in delays_seen
    /\ [path |-> "nse", attempt |-> 2, seconds |-> 40] \in delays_seen


C37_CountersOfCommittedRows ==
    \A w \in Workers :
        (/\ pc[w] = "exit" /\ result[w] = "raised"
         /\ op[w] \in BatchOps /\ conn[w])
           => stats = [stats_before EXCEPT !.errors = @ + 1]


\* The records of a batch.
InBatch(w, raw) == \E i \in 1..Len(data[w]) : data[w][i] = raw

\* C36: once updated_pdf_status has recorded a stored attachment on a row
\* (minio_path set, pdf_stored true), a run of insert_announcements on the same
\* raw announcement leaves minio_path and pdf_stored of that row as they were.
C36_ReinsertKeepsPdfStatus ==
    [][\A w \in Workers :
         (/\ pc[w] = "body" /\ op[w] = "insert_announcements"
          /\ pc'[w] = "exit" /\ result'[w] = "returned")
            => \A r \in Rows(announcements) :
                  (r.pdf_stored /\ InBatch(w, r.raw_json))
                     => \E q \in Rows(announcements') :
                           /\ SameKey(q, r)
                           /\ q.minio_path = r.minio_path
                           /\ q.pdf_stored = r.pdf_stored]_vars


(***************************************************************************)
(* Properties of the NSE fetcher.                                          *)
(***************************************************************************)
\* C31: the NSE fetcher sends no API request while its session is expired
\* (never warmed up, or older than max_session_duration): every public fetch
\* operation warms an expired session up first, and when that warm-up fails it
\* sends no API request and returns an empty list.
C31_NoRequestOnExpiredSession ==
    /\ ~sent_expired
    /\ entry_warm_up = "failed" =>
          (Requests(rq_log) = 0 /\ nse_returned = NseReturned("[]"))

\* C38: get_corporate_announcements returns an empty list and does not raise
\* when _make_request returned None or the response has an unexpected
\* structure.
C38_EmptyListOnFailure ==
    (/\ nse_op = "get_corporate_announcements" /\ nse_pc = "done"
     /\ entry_warm_up # "failed"
     /\ nse_json \in {NONE, "{other}"})
       => nse_returned = NseReturned("[]")


(***************************************************************************)
(* The tier persisted and the tier classified.                             *)
(***************************************************************************)
\* The announcement classified, as the record insert_announcements receives.
AsFetched(a) == Raw("500001", "Acme Ltd", T1, NoDt, a.CATEGORYNAME, a.NEWSSUB)

\* C34: the confidence insert_announcements persists on the row of an
\* announcement is the confidence the classifier (_determine_confidence) gives
\* the same raw announcement, for every category and headline.
C34_PersistedTierIsClassifiedTier ==
    \A i \in 1..Len(cl_runs) :
        _prepare_announcement_data(AsFetched(cl_announcement)).confidence
           = cl_runs[i].confidence


(***************************************************************************)
(* The attachment recorded on a row and the objects of the store.          *)
(***************************************************************************)
\* C35: after any run of process_announcements a row patched with pdf_stored
\* true has a minio_path that names an object of the store, and a filing whose
\* attachment was not found or not downloaded is patched with pdf_stored
\* false.
C35_StoredRowNamesAnObject ==
    /\ \A r \in Rows(announcements) :
          r.pdf_stored => \E o \in objects : PathText(o.path) = r.minio_path
    /\ (pa_pc = "patching" /\ dl_result.kind # "path") => ~processed_data.pdf_stored


(***************************************************************************)
(* Properties of the throttle.                                             *)
(***************************************************************************)
\* C32: the outbound requests of the store are serialized by the throttle:
\* between the starts of two consecutive outbound requests, warm-up requests
\* included, at least min_request_interval passes.
C32_RequestsThrottled == \A g \in request_gaps : g >= min_request_interval


(***************************************************************************)
(* Properties of concurrent downloads.                                     *)
(***************************************************************************)
Succeeded(w) == cc_pc[w] = "done" /\ cc_result[w].kind = "path"

\* C33: when two workers run download_and_store_pdf at the same time for the
\* same (symbol, filing timestamp, confidence), every interleaving of their
\* existence checks and uploads ends with exactly one object, and each worker
\* that succeeds returns the path of that object.
C33_OneObjectOnePath ==
    (\A w \in Workers : cc_pc[w] = "done") =>
        /\ (\E w \in Workers : Succeeded(w)) => Cardinality(objects) = 1
        /\ \A w \in Workers :
              Succeeded(w) => \A o \in objects : o.path = cc_result[w].path

====
